---- MODULE Spec2Model ----
(***************************************************************************)
(* A model of the retrieval-to-context pipeline of obsidian-vault-RAG:     *)
(* the provenance deduplicator, the MMR diversity selector, the LLM        *)
(* reranker (both variants), the context assembler, the JSONL vector      *)
(* store, the retrieval profiles and the embedding cache.  Each component  *)
(* has its own specification (SpecDedupe, SpecMmr, SpecRerank,             *)
(* SpecLcelLive, SpecBuild, SpecStore, SpecPipeline, SpecVecStore,         *)
(* SpecSave, SpecProfile, SpecCache); the variables of the other           *)
(* components stay at their idle values.                                   *)
(*                                                                         *)
(* Conventions.  An Optional value is a tuple: <<>> is None, <<v>> is v.   *)
(* Scores are integers (a fixed-point reading of the floats).  A list is a *)
(* sequence; list indices of the source (0-based) are kept 0-based in the  *)
(* values the model exchanges with the language model, and shifted by one  *)
(* where a sequence is indexed.                                            *)
(***************************************************************************)
EXTENDS Integers, Sequences, FiniteSets, TLC

VARIABLES
    \* dedupe_by_source (src/rag/retrieval.py and ask.py)
    dd_pc, dd_nodes, dd_out, dd_out_ask,
    \* mmr_select
    mm_pc, mm_embed, mm_qv, mm_cands, mm_k, mm_lambda,
    mm_sel, mm_rem, mm_failed, mm_out,
    \* llm_rerank / llm_rerank_lcel
    rr_pc, rr_llm, rr_cands, rr_keep, rr_reply, rr_retries,
    rr_attempt, rr_calls, rr_out, rr_last,
    \* SimpleContextBuilder.build
    cb_pc, cb_cfg, cb_cands, cb_budget, cb_ordered, cb_i,
    cb_chosen, cb_cites, cb_seen, cb_tokens, cb_rendered,
    \* JsonlVectorStore
    st_pc, st_chunks, st_vectors, st_file, st_orig, st_err,
    \* retrieve_nodes and the ask entry point
    pl_pc, pl_cfg, pl_env, pl_raw, pl_nodes, pl_hist, pl_final,
    \* JsonlVectorStore / InMemoryVectorStore: upsert, count, search
    vs_pc, vs_chunks, vs_vectors, vs_pairs, vs_err,
    vs_query, vs_topk, vs_filters, vs_out,
    \* JsonlVectorStore.save step by step, a crash, and load of the data file
    sv_pc, sv_chunks, sv_vectors, sv_live, sv_tmp, sv_i, sv_prev, sv_loaded,
    \* load_profile and override_cfg
    pf_pc, pf_profile, pf_overrides, pf_cfg, pf_out,
    \* CachedEmbedder.embed_texts called by two processes on one cache
    ce_proc, ce_cache, ce_up, ce_hist, ce_overlap

ddVars == <<dd_pc, dd_nodes, dd_out, dd_out_ask>>
mmVars == <<mm_pc, mm_embed, mm_qv, mm_cands, mm_k, mm_lambda,
            mm_sel, mm_rem, mm_failed, mm_out>>
rrVars == <<rr_pc, rr_llm, rr_cands, rr_keep, rr_reply, rr_retries,
            rr_attempt, rr_calls, rr_out, rr_last>>
cbVars == <<cb_pc, cb_cfg, cb_cands, cb_budget, cb_ordered, cb_i,
            cb_chosen, cb_cites, cb_seen, cb_tokens, cb_rendered>>
stVars == <<st_pc, st_chunks, st_vectors, st_file, st_orig, st_err>>
plVars == <<pl_pc, pl_cfg, pl_env, pl_raw, pl_nodes, pl_hist, pl_final>>
vsVars == <<vs_pc, vs_chunks, vs_vectors, vs_pairs, vs_err,
            vs_query, vs_topk, vs_filters, vs_out>>
svVars == <<sv_pc, sv_chunks, sv_vectors, sv_live, sv_tmp, sv_i, sv_prev,
            sv_loaded>>
pfVars == <<pf_pc, pf_profile, pf_overrides, pf_cfg, pf_out>>
ceVars == <<ce_proc, ce_cache, ce_up, ce_hist, ce_overlap>>
vars == <<ddVars, mmVars, rrVars, cbVars, stVars, plVars, vsVars, svVars,
          pfVars, ceVars>>
\* what an action of one component leaves alone: the other components
notDd == <<mmVars, rrVars, cbVars, stVars, plVars, vsVars, svVars,
           pfVars, ceVars>>
notMm == <<ddVars, rrVars, cbVars, stVars, plVars, vsVars, svVars,
           pfVars, ceVars>>
notRr == <<ddVars, mmVars, cbVars, stVars, plVars, vsVars, svVars,
           pfVars, ceVars>>
notCb == <<ddVars, mmVars, rrVars, stVars, plVars, vsVars, svVars,
           pfVars, ceVars>>
notSt == <<ddVars, mmVars, rrVars, cbVars, plVars, vsVars, svVars,
           pfVars, ceVars>>
notPl == <<ddVars, mmVars, rrVars, cbVars, stVars, vsVars, svVars,
           pfVars, ceVars>>
notVs == <<ddVars, mmVars, rrVars, cbVars, stVars, plVars, svVars,
           pfVars, ceVars>>
notSv == <<ddVars, mmVars, rrVars, cbVars, stVars, plVars, vsVars,
           pfVars, ceVars>>
notPf == <<ddVars, mmVars, rrVars, cbVars, stVars, plVars, vsVars, svVars,
           ceVars>>
notCe == <<ddVars, mmVars, rrVars, cbVars, stVars, plVars, vsVars, svVars,
           pfVars>>

----------------------------------------------------------------------------
(* Bounds of the model *)

\* longest candidate list handed to dedupe_by_source
MaxNodes == 3
\* longest candidate list handed to mmr_select
MaxMmrCands == 3
\* largest k asked of mmr_select
MaxMmrK == 4
\* longest candidate pool handed to the reranker
MaxPool == 3
\* largest keep_k asked of the reranker
MaxKeep == 2
\* longest generic `ranked` list in a model reply
MaxRanked == 2
\* largest max_retries of llm_rerank_lcel
MaxRetries == 1
\* longest candidate list handed to the context builder
MaxBuildCands == 2
\* most records in the vector store
MaxStore == 2
\* the longest list a retriever hands to retrieve_nodes
MaxPlNodes == 2
\* the most passages a store is filled with
MaxVsStored == 2

----------------------------------------------------------------------------
(* Generic helpers *)

None == <<>>
Some(v) == <<v>>
IsNone(o) == o = <<>>

Min(a, b) == IF a <= b THEN a ELSE b
Max(a, b) == IF a >= b THEN a ELSE b

\* all sequences over S of length 0..n
SeqsUpTo(S, n) == UNION {[1..m -> S] : m \in 0..n}

\* Python's s[:k] for k >= 0
Take(s, k) == SubSeq(s, 1, Min(k, Len(s)))

Range(s) == {s[i] : i \in 1..Len(s)}

\* lexicographic order on the two-component sort keys Python builds
LexLT(a, b) == a[1] < b[1] \/ (a[1] = b[1] /\ a[2] < b[2])

\* Python's sorted() is stable: the order of the indices of `keys` by
\* (key, original position).
RECURSIVE SortIdx(_, _)
SortIdx(keys, rem) ==
    IF rem = {} THEN <<>>
    ELSE LET m == CHOOSE i \in rem : \A j \in rem :
                     LexLT(keys[i], keys[j])
                     \/ (~LexLT(keys[j], keys[i]) /\ i <= j)
         IN  <<m>> \o SortIdx(keys, rem \ {m})

\* sorted(s, key=...) given the sequence of keys of s
SortedByKeys(s, keys) ==
    LET p == SortIdx(keys, DOMAIN s)
    IN  [i \in 1..Len(s) |-> s[p[i]]]

\* key=lambda n: (n.score is None, -(n.score or 0.0))
ScoreKey(n) == IF IsNone(n.score) THEN <<1, 0>> ELSE <<0, 0 - n.score[1]>>

\* sorted(nodes, key=lambda n: (n.score is None, -(n.score or 0.0)))
SortByScore(nodes) ==
    SortedByKeys(nodes, [i \in 1..Len(nodes) |-> ScoreKey(nodes[i])])

----------------------------------------------------------------------------
(* dedupe_by_source *)

\* the scores a retriever attaches to a node (None: no score)
NodeScores == {None, Some(0 - 1), Some(0), Some(1)}
\* metadata["source_path"]: a path, the empty string, or absent (None)
SourcePaths == {Some("a.md"), Some("b.md"), Some(""), None}

\* one key for every node without the provenance field
ProvenanceKey_SharedMissing(n) ==
    IF IsNone(n.src) \/ n.src = Some("")
    THEN <<"__missing__", 0>>
    ELSE <<"path", n.src[1]>>

\* meta.get(key) or f"__missing__::{node_id}"
ProvenanceKey(n) ==
    IF IsNone(n.src) \/ n.src = Some("")
    THEN <<"__missing__", n.id>>
    ELSE <<"path", n.src[1]>>

\* for n in nodes: if k not in best: best[k] = n ; list(best.values())
RECURSIVE KeepFirstPerKey(_, _)
KeepFirstPerKey(nodes, seenKeys) ==
    IF nodes = <<>> THEN <<>>
    ELSE LET n == Head(nodes)
             k == ProvenanceKey(n)
         IN  IF k \in seenKeys
             THEN KeepFirstPerKey(Tail(nodes), seenKeys)
             ELSE <<n>> \o KeepFirstPerKey(Tail(nodes), seenKeys \cup {k})

\* src/rag/retrieval.py: sorts, then keeps the first node of each key
dedupe_by_source(nodes) == KeepFirstPerKey(SortByScore(nodes), {})

\* ask.py: keeps the first node of each key in the order given
dedupe_by_source_ask(nodes) == KeepFirstPerKey(nodes, {})

\* a node list as a retriever builds it: the i-th node has node_id i
NodeListsOfLen(m) ==
    {[i \in 1..m |-> [id |-> i, score |-> f[i][1], src |-> f[i][2]]] :
        f \in [1..m -> NodeScores \X SourcePaths]}
NodeLists == UNION {NodeListsOfLen(m) : m \in 0..MaxNodes}

DedupeIdle ==
    /\ dd_pc = "idle" /\ dd_nodes = <<>> /\ dd_out = <<>> /\ dd_out_ask = <<>>

DedupeInit ==
    /\ dd_pc = "start"
    /\ dd_nodes \in NodeLists
    /\ dd_out = <<>>
    /\ dd_out_ask = <<>>

\* a call of dedupe_by_source of src/rag/retrieval.py on dd_nodes
DedupeRetrieval ==
    /\ UNCHANGED notDd
    /\ dd_pc = "start"
    /\ dd_out' = dedupe_by_source(dd_nodes)
    /\ dd_pc' = "retrieval_done"
    /\ UNCHANGED <<dd_nodes, dd_out_ask>>

\* a call of dedupe_by_source of ask.py on the same list
DedupeAsk ==
    /\ UNCHANGED notDd
    /\ dd_pc = "retrieval_done"
    /\ dd_out_ask' = dedupe_by_source_ask(dd_nodes)
    /\ dd_pc' = "done"
    /\ UNCHANGED <<dd_nodes, dd_out>>

DedupeNext == DedupeRetrieval \/ DedupeAsk

----------------------------------------------------------------------------
(* mmr_select *)

\* Embeddings are integer vectors whose norms are integers, so that every
\* cosine is a multiple of 1/25 and is held exactly as an integer number of
\* 25ths.  A candidate's vec is embed.get_text_embedding(text[:2000]).
EmbedVecs == {<<1, 0>>, <<0 - 1, 0>>, <<3, 4>>, <<4, 3>>, <<0, 0>>}
QueryVecs == {<<1, 0>>, <<3, 4>>, <<0, 0>>}
\* lambda_mult in tenths: 0.0, 0.7 (the default), 1.0
Lambdas == {0, 7, 10}
LambdaOne == 5 + 5
CosOne == 5 * 5

Dot(a, b) == a[1] * b[1] + a[2] * b[2]
ISqrt(n) == CHOOSE r \in 0..n : r * r = n
Norm(a) == ISqrt(Dot(a, a))

\* _cosine of src/rag/retrieval.py, in 25ths
_cosine(a, b) ==
    IF Norm(a) = 0 \/ Norm(b) = 0 THEN 0
    ELSE (Dot(a, b) * CosOne) \div (Norm(a) * Norm(b))

\* a starting value no candidate's value exceeds
BestValInit_TooHigh == 1000 * 1000 * 1000

\* best_val = -1e9
BestValInit == 0 - 1000000000

\* list(remaining): a set of small ints iterates in ascending order
RECURSIVE AscList(_)
AscList(S) ==
    IF S = {} THEN <<>>
    ELSE LET m == CHOOSE i \in S : \A j \in S : i <= j
         IN  <<m>> \o AscList(S \ {m})

\* div = max(_cosine(emb[i], emb[j]) for j in selected), 0.0 if none selected
MmrDiv(embs, i, sel) ==
    IF sel = <<>> THEN 0
    ELSE LET sims == {_cosine(embs[i], embs[sel[j]]) : j \in 1..Len(sel)}
         IN  CHOOSE d \in sims : \A e \in sims : e <= d

\* val = lambda_mult * sim_q[i] - (1.0 - lambda_mult) * div   (in 250ths)
MmrVal(qv, embs, lam, i, sel) ==
    lam * _cosine(qv, embs[i]) - (LambdaOne - lam) * MmrDiv(embs, i, sel)

\* the inner for loop with `>=` for `>`: the last index of the best value wins
RECURSIVE MmrScan_LastWins(_, _, _, _, _, _, _)
MmrScan_LastWins(order, qv, embs, lam, sel, best_i, best_val) ==
    IF order = <<>> THEN best_i
    ELSE LET i == Head(order)
             val == MmrVal(qv, embs, lam, i, sel)
         IN  IF val >= best_val
             THEN MmrScan_LastWins(Tail(order), qv, embs, lam, sel, Some(i), val)
             ELSE MmrScan_LastWins(Tail(order), qv, embs, lam, sel, best_i, best_val)

\* the inner for loop: `if val > best_val` keeps the first index of the best value
RECURSIVE MmrScan(_, _, _, _, _, _, _)
MmrScan(order, qv, embs, lam, sel, best_i, best_val) ==
    IF order = <<>> THEN best_i
    ELSE LET i == Head(order)
             val == MmrVal(qv, embs, lam, i, sel)
         IN  IF val > best_val
             THEN MmrScan(Tail(order), qv, embs, lam, sel, Some(i), val)
             ELSE MmrScan(Tail(order), qv, embs, lam, sel, best_i, best_val)

\* best_i after one pass over list(remaining); None if no value beat best_val
MmrBest(qv, embs, lam, sel, rem) ==
    MmrScan(AscList(rem), qv, embs, lam, sel, None, BestValInit)

\* a loop that runs once too often
MmrLoopCond_OneMore(sel, rem, k, n) == rem # {} /\ Len(sel) <= Min(k, n)

\* while remaining and len(selected) < min(k, len(candidates))
MmrLoopCond(sel, rem, k, n) == rem # {} /\ Len(sel) < Min(k, n)

MmrEmbs(cands) == [i \in 1..Len(cands) |-> cands[i].vec]

MmrCandListsOfLen(m, scores, vecs) ==
    {[i \in 1..m |-> [id |-> i, score |-> f[i][1], vec |-> f[i][2]]] :
        f \in [1..m -> scores \X vecs]}
MmrCandLists(scores, vecs) ==
    UNION {MmrCandListsOfLen(m, scores, vecs) : m \in 0..MaxMmrCands}

MmrIdle ==
    /\ mm_pc = "idle" /\ mm_embed = FALSE /\ mm_qv = <<0, 0>>
    /\ mm_cands = <<>> /\ mm_k = 0 /\ mm_lambda = 0
    /\ mm_sel = <<>> /\ mm_rem = {} /\ mm_failed = FALSE /\ mm_out = <<>>

\* Settings.embed_model set: every embedding and lambda; or unset: every
\* score list (the embeddings are then never read)
MmrInit ==
    /\ mm_pc = "start"
    /\ \/ /\ mm_embed = TRUE
          /\ mm_cands \in MmrCandLists({Some(1)}, EmbedVecs)
          /\ mm_qv \in QueryVecs
          /\ mm_lambda \in Lambdas
       \/ /\ mm_embed = FALSE
          /\ mm_cands \in MmrCandLists({None, Some(0), Some(1)}, {<<1, 0>>})
          /\ mm_qv = <<1, 0>>
          /\ mm_lambda = 7
    /\ mm_k \in 0..MaxMmrK
    /\ mm_sel = <<>> /\ mm_rem = {} /\ mm_failed = FALSE /\ mm_out = <<>>

\* lines 84-105: the early return, the fallback without an embedder, or the
\* set-up of the greedy loop
MmrEnter ==
    /\ UNCHANGED notMm
    /\ mm_pc = "start"
    /\ IF mm_cands = <<>> \/ mm_k <= 0
       THEN /\ mm_out' = <<>> /\ mm_pc' = "done"
            /\ UNCHANGED <<mm_sel, mm_rem>>
       ELSE IF ~mm_embed
       THEN /\ mm_out' = Take(SortByScore(mm_cands), mm_k) /\ mm_pc' = "done"
            /\ UNCHANGED <<mm_sel, mm_rem>>
       ELSE /\ mm_sel' = <<>> /\ mm_rem' = DOMAIN mm_cands
            /\ mm_pc' = "loop" /\ UNCHANGED mm_out
    /\ UNCHANGED <<mm_embed, mm_qv, mm_cands, mm_k, mm_lambda, mm_failed>>

\* lines 107-124: one iteration of the while loop
MmrIter ==
    /\ UNCHANGED notMm
    /\ mm_pc = "loop"
    /\ MmrLoopCond(mm_sel, mm_rem, mm_k, Len(mm_cands))
    /\ LET best == MmrBest(mm_qv, MmrEmbs(mm_cands), mm_lambda, mm_sel, mm_rem)
       IN  IF IsNone(best)
           THEN \* assert best_i is not None
                /\ mm_failed' = TRUE /\ mm_pc' = "assert_failed"
                /\ UNCHANGED <<mm_sel, mm_rem>>
           ELSE /\ mm_sel' = Append(mm_sel, best[1])
                /\ mm_rem' = mm_rem \ {best[1]}
                /\ UNCHANGED <<mm_failed, mm_pc>>
    /\ UNCHANGED <<mm_embed, mm_qv, mm_cands, mm_k, mm_lambda, mm_out>>

\* line 126: return [candidates[i] for i in selected]
MmrReturn ==
    /\ UNCHANGED notMm
    /\ mm_pc = "loop"
    /\ ~MmrLoopCond(mm_sel, mm_rem, mm_k, Len(mm_cands))
    /\ mm_out' = [j \in 1..Len(mm_sel) |-> mm_cands[mm_sel[j]]]
    /\ mm_pc' = "done"
    /\ UNCHANGED <<mm_embed, mm_qv, mm_cands, mm_k, mm_lambda,
                   mm_sel, mm_rem, mm_failed>>

MmrNext == MmrEnter \/ MmrIter \/ MmrReturn

----------------------------------------------------------------------------
(* llm_rerank and llm_rerank_lcel *)

\* The text the language model returns, as far as the parsing reads it:
\*   kind "text"     no {...} in the reply
\*   kind "badjson"  a {...} that json.loads rejects
\*   kind "missing"  an object without the key "ranked"
\*   kind "null"     {"ranked": null}
\*   kind "scalar"   {"ranked": 3}
\*   kind "digits"   {"ranked": "20"}: a string, items are its characters
\*   kind "list"     {"ranked": [...]}, items are its elements
\* An item is [t, v]: "int" v, "bool" v (True is 1), "str" (the decimal
\* digits of v), "word" (a string that is not all digits), "float", and
\* "supdigit" (a string such as a superscript two: isdigit() holds, int() raises).
Item(t, v) == [t |-> t, v |-> v]
Reply(kind, items) == [kind |-> kind, items |-> items]

IndexVals == {0 - 1, 0, 2, 5}
IntItems == {Item("int", v) : v \in IndexVals}
OddItems == {Item("str", 1), Item("word", 0), Item("float", 1),
             Item("bool", 1), Item("supdigit", 2)}

Replies ==
    {Reply(k, <<>>) : k \in {"text", "badjson", "missing", "null", "scalar"}}
    \cup {Reply("digits", <<Item("str", 2), Item("str", 0)>>)}
    \cup {Reply("list", r) : r \in SeqsUpTo(IntItems, MaxRanked)}
    \cup {Reply("list", <<x>>) : x \in OddItems}
    \cup {Reply("list", <<x, Item("int", 0)>>) : x \in OddItems}
    \cup {Reply("list", <<Item("int", 2), x>>) : x \in OddItems}
    \cup {Reply("list", <<Item("int", 2), Item("int", 0),
                          Item("int", 0), Item("int", 5)>>)}

PoolListsOfLen(m) ==
    {[i \in 1..m |-> [id |-> i, score |-> f[i]]] :
        f \in [1..m -> {None, Some(0), Some(1)}]}
PoolLists == UNION {PoolListsOfLen(m) : m \in 0..MaxPool}

\* a fallback that forgets to sort
RerankFallback_Unsorted(cands, keep) == Take(cands, keep)

\* sorted(candidates, key=lambda n: (n.score is None, -(n.score or 0.0)))[:keep_k]
RerankFallback(cands, keep) == Take(SortByScore(cands), keep)

\* isinstance(x, int) or (isinstance(x, str) and x.isdigit())
ItemIsIndex(x) == x.t \in {"int", "bool", "str", "supdigit"}

\* what raises inside the try block before `ranked` is filtered by range:
\* json.loads, iterating a non-iterable, int() of a non-decimal digit
ParseRaises(reply) ==
    \/ reply.kind \in {"badjson", "null", "scalar"}
    \/ \E i \in 1..Len(reply.items) : reply.items[i].t = "supdigit"

\* ranked = [int(x) for x in ranked if isinstance(x, int) or ...]
RankedInts(reply) ==
    LET kept == SelectSeq(reply.items, ItemIsIndex)
    IN  [i \in 1..Len(kept) |-> kept[i].v]

\* ranked = [i for i in ranked if 0 <= i < len(candidates)]
InRange(ranked, n) == SelectSeq(ranked, LAMBDA i : 0 <= i /\ i < n)

\* the loop without the `seen` test: a repeated index is appended again
RECURSIVE OrderedUnique_KeepsRepeats(_, _, _)
OrderedUnique_KeepsRepeats(ranked, cands, seen) ==
    IF ranked = <<>> THEN <<>>
    ELSE <<cands[Head(ranked) + 1]>>
         \o OrderedUnique_KeepsRepeats(Tail(ranked), cands, seen)

\* for i in ranked: if i not in seen: ordered.append(candidates[i]); seen.add(i)
RECURSIVE OrderedUnique(_, _, _)
OrderedUnique(ranked, cands, seen) ==
    IF ranked = <<>> THEN <<>>
    ELSE LET i == Head(ranked)
         IN  IF i \in seen
             THEN OrderedUnique(Tail(ranked), cands, seen)
             ELSE <<cands[i + 1]>>
                  \o OrderedUnique(Tail(ranked), cands, seen \cup {i})

Returned(path, nodes) == [status |-> "ok", path |-> path, nodes |-> nodes]
Raised == [status |-> "raised", path |-> "llm", nodes |-> <<>>]
NoResult == [status |-> "none", path |-> "none", nodes |-> <<>>]

\* llm_rerank (lines 138-188).  llm: Settings.llm is set; fails: llm.complete
\* raises; reply: the text it returns otherwise.
llm_rerank(cands, keep, llm, fails, reply) ==
    IF cands = <<>> \/ keep <= 0 THEN Returned("empty", <<>>)
    ELSE IF ~llm THEN Returned("fallback", RerankFallback(cands, keep))
    ELSE IF fails THEN Raised
    ELSE IF reply.kind = "text"
         THEN Returned("fallback", RerankFallback(cands, keep))
    ELSE IF ParseRaises(reply)
         THEN Returned("fallback", RerankFallback(cands, keep))
    ELSE LET ranked == InRange(RankedInts(reply), Len(cands))
         IN  IF ranked = <<>>
             THEN Returned("fallback", RerankFallback(cands, keep))
             ELSE Returned("ranked", Take(OrderedUnique(ranked, cands, {}), keep))

\* What chain.invoke / RerankOut.model_validate make of a reply (lines
\* 254-264): a validated `ranked` (a non-empty list of ints) or an exception.
\* Whether the library coerces a digit string or a bool to an int is left
\* open: both outcomes are allowed.
Validated(ranked) == [ok |-> TRUE, ranked |-> ranked]
Invalid == [ok |-> FALSE, ranked |-> <<>>]
LcelSchema(reply) ==
    IF reply.kind # "list" \/ reply.items = <<>> THEN {Invalid}
    ELSE IF \E i \in 1..Len(reply.items) :
                reply.items[i].t \in {"word", "float", "supdigit"}
         THEN {Invalid}
    ELSE IF \A i \in 1..Len(reply.items) : reply.items[i].t = "int"
         THEN {Validated(RankedInts(reply))}
    ELSE {Invalid, Validated(RankedInts(reply))}

\* lines 266-279: what an attempt returns once the output validated
LcelResult(cands, keep, ranked0) ==
    LET ranked == InRange(ranked0, Len(cands))
        ordered == OrderedUnique(ranked, cands, {})
    IN  IF ranked = <<>>
        THEN Returned("fallback", RerankFallback(cands, keep))
        ELSE IF ordered # <<>>
             THEN Returned("ranked", Take(ordered, keep))
             ELSE Returned("fallback", RerankFallback(cands, keep))

\* a loop over range(max_retries + 2)
LcelInRange_OneMore(attempt, max_retries) == attempt <= max_retries + 1

\* for attempt in range(max_retries + 1): attempt is one of 0..max_retries
LcelInRange(attempt, max_retries) == attempt <= max_retries

RerankIdle ==
    /\ rr_pc = "idle" /\ rr_llm = FALSE /\ rr_cands = <<>> /\ rr_keep = 0
    /\ rr_reply = Reply("text", <<>>) /\ rr_retries = 0
    /\ rr_attempt = 0 /\ rr_calls = 0 /\ rr_out = NoResult
    /\ rr_last = "none"

RerankInit ==
    /\ rr_pc = "start"
    /\ rr_cands \in PoolLists
    /\ rr_keep \in 0..MaxKeep
    /\ \/ rr_llm = TRUE /\ rr_reply \in Replies
       \/ rr_llm = FALSE /\ rr_reply = Reply("text", <<>>)
    /\ rr_retries = 0 /\ rr_attempt = 0 /\ rr_calls = 0
    /\ rr_out = NoResult
    /\ rr_last = "none"

\* a call of llm_rerank; llm.complete either raises or returns rr_reply
LlmRerank ==
    /\ UNCHANGED notRr
    /\ rr_pc = "start"
    /\ \E fails \in BOOLEAN :
         /\ rr_out' = llm_rerank(rr_cands, rr_keep, rr_llm, fails, rr_reply)
         /\ rr_calls' = IF rr_cands # <<>> /\ rr_keep > 0 /\ rr_llm THEN 1 ELSE 0
    /\ rr_pc' = "llm_done"
    /\ UNCHANGED <<rr_llm, rr_cands, rr_keep, rr_reply, rr_retries, rr_attempt,
                   rr_last>>

\* a call of llm_rerank_lcel, up to the retry loop (lines 228-256)
LcelEnter ==
    /\ UNCHANGED notRr
    /\ rr_pc = "start"
    /\ rr_llm
    /\ \E r \in (0 - 1)..MaxRetries : rr_retries' = r
    /\ IF rr_cands = <<>> \/ rr_keep <= 0
       THEN rr_out' = Returned("empty", <<>>) /\ rr_pc' = "lcel_done"
       ELSE rr_out' = rr_out /\ rr_pc' = "lcel"
    /\ UNCHANGED <<rr_llm, rr_cands, rr_keep, rr_reply, rr_attempt, rr_calls,
                   rr_last>>

\* one iteration of `for attempt in range(max_retries + 1)` (lines 258-283):
\* chain.invoke raises, or the reply fails validation, or it validates
\* rr_last records how the attempt ended: it raised, it validated with no
\* index in range, or it yielded a ranking.
LcelAttempt ==
    /\ UNCHANGED notRr
    /\ rr_pc = "lcel"
    /\ LcelInRange(rr_attempt, rr_retries)
    /\ rr_calls' = rr_calls + 1
    /\ \E fails \in BOOLEAN : \E v \in LcelSchema(rr_reply) :
         IF fails \/ ~v.ok
         THEN /\ rr_last' = "raised"
              /\ IF rr_attempt >= rr_retries
                 THEN /\ rr_out' = Returned("fallback",
                                            RerankFallback(rr_cands, rr_keep))
                      /\ rr_pc' = "lcel_done" /\ UNCHANGED rr_attempt
                 ELSE /\ rr_attempt' = rr_attempt + 1
                      /\ UNCHANGED <<rr_out, rr_pc>>
         ELSE /\ rr_last' = IF InRange(v.ranked, Len(rr_cands)) = <<>>
                            THEN "no_index" ELSE "ranked"
              /\ rr_out' = LcelResult(rr_cands, rr_keep, v.ranked)
              /\ rr_pc' = "lcel_done" /\ UNCHANGED rr_attempt
    /\ UNCHANGED <<rr_llm, rr_cands, rr_keep, rr_reply, rr_retries>>

\* line 285: the return after the loop (reached when the range is empty)
LcelExhausted ==
    /\ UNCHANGED notRr
    /\ rr_pc = "lcel"
    /\ ~LcelInRange(rr_attempt, rr_retries)
    /\ rr_out' = Returned("fallback", RerankFallback(rr_cands, rr_keep))
    /\ rr_pc' = "lcel_done"
    /\ UNCHANGED <<rr_llm, rr_cands, rr_keep, rr_reply, rr_retries,
                   rr_attempt, rr_calls, rr_last>>

RerankNext == LlmRerank \/ LcelEnter \/ LcelAttempt \/ LcelExhausted

\* Calls of llm_rerank_lcel on no candidate or on two, with a reply that is
\* no JSON, one that ranks both candidates, one whose only index is out of
\* range, and one whose validation may go either way.
LcelPools == PoolListsOfLen(0) \cup PoolListsOfLen(2)
LcelReplies == {Reply("text", <<>>),
                Reply("list", <<Item("int", 1), Item("int", 0)>>),
                Reply("list", <<Item("int", 5)>>),
                Reply("list", <<Item("bool", 1)>>)}
LcelInit ==
    /\ rr_pc = "start"
    /\ rr_llm = TRUE
    /\ rr_cands \in LcelPools
    /\ rr_keep \in 0..MaxKeep
    /\ rr_reply \in LcelReplies
    /\ rr_retries = 0 /\ rr_attempt = 0 /\ rr_calls = 0
    /\ rr_out = NoResult
    /\ rr_last = "none"

\* the calls of llm_rerank_lcel alone
LcelNext == LcelEnter \/ LcelAttempt \/ LcelExhausted

----------------------------------------------------------------------------
(* SimpleContextBuilder.build *)

\* A passage text, as far as build reads it: its length in characters and
\* its signature _normalize_for_dedupe(text)[:500].  "abc" and "ABC " differ
\* as texts and share a signature; the long text costs 28 tokens.
Texts == {[s |-> "abc", len |-> 3, sig |-> "abc"],
          [s |-> "ABC ", len |-> 4, sig |-> "abc"],
          [s |-> "long", len |-> 112, sig |-> "long"]}

\* (score, rerank_score) of a candidate
CandScores == {<<1, None>>, <<2, None>>, <<2, Some(0)>>}

BuildCandListsOfLen(m) ==
    {[i \in 1..m |->
         [chunk |-> [chunk_id |-> i, doc_id |-> (i + 1) \div 2,
                     text |-> f[i][2]],
          score |-> f[i][1][1], rerank_score |-> f[i][1][2]]] :
        f \in [1..m -> CandScores \X Texts]}
BuildCandLists == UNION {BuildCandListsOfLen(m) : m \in 0..MaxBuildCands}

\* the fields of SimpleContextBuilder; max_chunks defaults to 12
BuilderConfigs ==
    [min_score : {None, Some(2)}, max_chunks : {0, 1, 12},
     dedupe : BOOLEAN, include_scores : BOOLEAN]
TokenBudgets == {0, 5, 8, 50}

\* _estimate_tokens, of a text of n characters: max(1, len(text) // 4)
_estimate_tokens(n) == Max(1, n \div 4)

\* len("Context:\n")
HeaderLen == 9
\* len("\n\n")
SeparatorLen == 2

\* c.rerank_score if c.rerank_score is not None else c.score
candidate_key(c) == IF IsNone(c.rerank_score) THEN c.score ELSE c.rerank_score[1]

\* a builder that packs the candidates in the order given
BuildOrdered_InputOrder(cands) == cands

\* sorted(candidates, key=candidate_key, reverse=True): stable, descending
BuildOrdered(cands) ==
    SortedByKeys(cands,
                 [i \in 1..Len(cands) |-> <<0, 0 - candidate_key(cands[i])>>])

\* len(str(n)) for a rank below 100
DigitsLen(n) == IF n < 10 THEN 1 ELSE 2
\* len(f"{score:.4f}") for a score of one integer digit
ScoreFmtLen(score) == IF score < 0 THEN 7 ELSE 6
\* len(label): "[n]", then " score=" and the score if include_scores, then "\n"
LabelLen(rank, score, include_scores) ==
    2 + DigitsLen(rank)
    + (IF include_scores THEN 7 + ScoreFmtLen(score) ELSE 0) + 1

\* chunk_tokens (line 76)
ChunkTokens(rank, score, include_scores, text) ==
    _estimate_tokens(LabelLen(rank, score, include_scores))
    + _estimate_tokens(text.len) + _estimate_tokens(SeparatorLen)

\* a budget test that forgets the cost of the candidate at hand
OverBudget_BeforeAdding(tokens_used, chunk_tokens, token_budget) ==
    tokens_used > token_budget

\* if tokens_used + chunk_tokens > token_budget: break   (line 77)
OverBudget(tokens_used, chunk_tokens, token_budget) ==
    tokens_used + chunk_tokens > token_budget

\* a citation whose rank is the count before the passage was appended
CitationFor_CountBefore(chunk, chosen, score) ==
    [chunk_id |-> chunk.chunk_id, doc_id |-> chunk.doc_id,
     rank |-> Len(chosen) - 1, score |-> score]

\* Citation(chunk_id=..., doc_id=..., metadata={"rank": len(chosen), "score":
\* score}), built after chosen.append(chunk)   (lines 85-97)
CitationFor(chunk, chosen, score) ==
    [chunk_id |-> chunk.chunk_id, doc_id |-> chunk.doc_id,
     rank |-> Len(chosen), score |-> score]

\* ch.text.strip(): of the texts above only "ABC " has white space to lose
Strip(text) == IF text.s = "ABC " THEN "ABC" ELSE text.s

\* _render_context, as far as the passages go: for each chunk, in order, its
\* label f"[{i}]" (i from 1) and its text
_render_context(chunks) ==
    [i \in 1..Len(chunks) |-> [label |-> i, text |-> Strip(chunks[i].text)]]

BuildIdle ==
    /\ cb_pc = "idle"
    /\ cb_cfg = [min_score |-> None, max_chunks |-> 12,
                 dedupe |-> TRUE, include_scores |-> FALSE]
    /\ cb_cands = <<>> /\ cb_budget = 0 /\ cb_ordered = <<>> /\ cb_i = 0
    /\ cb_chosen = <<>> /\ cb_cites = <<>> /\ cb_seen = {} /\ cb_tokens = 0
    /\ cb_rendered = <<>>

BuildInit ==
    /\ cb_pc = "start"
    /\ cb_cfg \in BuilderConfigs
    /\ cb_cands \in BuildCandLists
    /\ cb_budget \in TokenBudgets
    /\ cb_ordered = <<>> /\ cb_i = 0
    /\ cb_chosen = <<>> /\ cb_cites = <<>> /\ cb_seen = {} /\ cb_tokens = 0
    /\ cb_rendered = <<>>

\* lines 48-56: order the candidates, charge the header
BuildStart ==
    /\ UNCHANGED notCb
    /\ cb_pc = "start"
    /\ cb_ordered' = BuildOrdered(cb_cands)
    /\ cb_i' = 1
    /\ cb_chosen' = <<>> /\ cb_cites' = <<>> /\ cb_seen' = {}
    /\ cb_tokens' = _estimate_tokens(HeaderLen)
    /\ cb_pc' = "loop"
    /\ UNCHANGED <<cb_cfg, cb_cands, cb_budget, cb_rendered>>

\* lines 58-100: the body of `for cand in ordered`, for the next candidate
BuildStep ==
    /\ UNCHANGED notCb
    /\ cb_pc = "loop"
    /\ cb_i <= Len(cb_ordered)
    /\ LET cand == cb_ordered[cb_i]
           score == candidate_key(cand)
           chunk == cand.chunk
           cost == ChunkTokens(Len(cb_chosen) + 1, score,
                               cb_cfg.include_scores, chunk.text)
       IN  IF ~IsNone(cb_cfg.min_score) /\ score < cb_cfg.min_score[1]
           THEN \* continue
                /\ cb_i' = cb_i + 1
                /\ UNCHANGED <<cb_chosen, cb_cites, cb_seen, cb_tokens, cb_pc>>
           ELSE IF cb_cfg.dedupe /\ chunk.text.sig \in cb_seen
           THEN \* continue
                /\ cb_i' = cb_i + 1
                /\ UNCHANGED <<cb_chosen, cb_cites, cb_seen, cb_tokens, cb_pc>>
           ELSE /\ cb_seen' = IF cb_cfg.dedupe
                              THEN cb_seen \cup {chunk.text.sig} ELSE cb_seen
                /\ IF OverBudget(cb_tokens, cost, cb_budget)
                   THEN \* break
                        /\ cb_pc' = "render"
                        /\ UNCHANGED <<cb_chosen, cb_cites, cb_tokens, cb_i>>
                   ELSE /\ cb_chosen' = Append(cb_chosen, chunk)
                        /\ cb_tokens' = cb_tokens + cost
                        /\ cb_cites' = Append(cb_cites,
                               CitationFor(chunk, cb_chosen', score))
                        /\ IF Len(cb_chosen) + 1 >= cb_cfg.max_chunks
                           THEN cb_pc' = "render" /\ cb_i' = cb_i
                           ELSE cb_pc' = cb_pc /\ cb_i' = cb_i + 1
    /\ UNCHANGED <<cb_cfg, cb_cands, cb_budget, cb_ordered, cb_rendered>>

\* the for loop runs out of candidates
BuildExhausted ==
    /\ UNCHANGED notCb
    /\ cb_pc = "loop"
    /\ cb_i > Len(cb_ordered)
    /\ cb_pc' = "render"
    /\ UNCHANGED <<cb_cfg, cb_cands, cb_budget, cb_ordered, cb_i,
                   cb_chosen, cb_cites, cb_seen, cb_tokens, cb_rendered>>

\* lines 102-111: render and return the ContextPack (chunks = cb_chosen,
\* rendered_context = cb_rendered, citations = cb_cites,
\* metadata["tokens_used_est"] = cb_tokens)
BuildReturn ==
    /\ UNCHANGED notCb
    /\ cb_pc = "render"
    /\ cb_rendered' = _render_context(cb_chosen)
    /\ cb_pc' = "done"
    /\ UNCHANGED <<cb_cfg, cb_cands, cb_budget, cb_ordered, cb_i,
                   cb_chosen, cb_cites, cb_seen, cb_tokens>>

\* rag_answer (src/rag/app/pipeline.py, lines 36-37): the ContextPack that
\* build returned is handed to generator.generate, whatever it holds
RagAnswerGenerate ==
    /\ UNCHANGED notCb
    /\ cb_pc = "done"
    /\ cb_pc' = "generated"
    /\ UNCHANGED <<cb_cfg, cb_cands, cb_budget, cb_ordered, cb_i,
                   cb_chosen, cb_cites, cb_seen, cb_tokens, cb_rendered>>

BuildNext ==
    BuildStart \/ BuildStep \/ BuildExhausted \/ BuildReturn
    \/ RagAnswerGenerate

----------------------------------------------------------------------------
(* JsonlVectorStore: save and load *)

\* A character of a passage text or of the data file is [t, v]:
\*   "chr" "a"    an ordinary character
\*   "chr" "NL"   U+000A, which json.dumps writes as the escape \n
\*   "chr" "LS"   U+2028 (or U+0085): json.dumps(ensure_ascii=False) writes
\*                it raw, and str.splitlines() ends a line at it
\*   "esc" "n"    the two characters \n of a JSON string escape
\*   "chr" "LF"   the "\n" save() writes after every row
\*   "pre" id     the row's text up to the opening quote of "text":
\*                {"chunk": {"chunk_id": id, "doc_id": .., "text": "
\*   "post" <<metadata, vector>>   the row's text from the closing quote on
Tok(t, v) == [t |-> t, v |-> v]
ChA == Tok("chr", "a")
ChNL == Tok("chr", "NL")
ChLS == Tok("chr", "LS")
ChLF == Tok("chr", "LF")
EscN == Tok("esc", "n")

StoreTexts == {<<>>, <<ChA>>, <<ChA, ChNL>>, <<ChA, ChLS, ChA>>, <<ChLS>>}

\* a metadata value: a str, a datetime.date, a tuple
MetaVal(t, v) == [t |-> t, v |-> v]
\* the metadata mapping of a chunk, as the sequence of its (key, value) items
StoreMetas == {<<>>,
               <<[key |-> "title", val |-> MetaVal("str", "x")]>>,
               <<[key |-> "created", val |-> MetaVal("date", "2020-01-01")]>>}
StoreVectors == {<<1, 0>>, <<0, 1>>}

StoreRows ==
    [chunk : [chunk_id : {"c"}, text : StoreTexts, metadata : StoreMetas],
     vector : StoreVectors]
StoreContents == SeqsUpTo(StoreRows, MaxStore)

\* json_sanitize of a metadata value: a str is kept, a date becomes its
\* ISO string, a tuple becomes a list
SanitizeVal(x) ==
    IF x.t = "date" THEN MetaVal("str", x.v)
    ELSE IF x.t = "tuple" THEN MetaVal("list", x.v)
    ELSE x

\* json_sanitize of the metadata mapping: {str(k): json_sanitize(v)}
json_sanitize(meta) ==
    [i \in 1..Len(meta) |-> [key |-> meta[i].key, val |-> SanitizeVal(meta[i].val)]]

\* json.dumps(text, ensure_ascii=False), between the quotes
RECURSIVE DumpsText(_)
DumpsText(text) ==
    IF text = <<>> THEN <<>>
    ELSE (IF Head(text) = ChNL THEN <<EscN>> ELSE <<Head(text)>>)
         \o DumpsText(Tail(text))

\* json.dumps(json_sanitize({"chunk": _chunk_to_dict(ch), "vector": vec}))
DumpsRow(ch, vec) ==
    <<Tok("pre", ch.chunk_id)>> \o DumpsText(ch.text)
    \o <<Tok("post", <<json_sanitize(ch.metadata), vec>>)>>

\* save(): every row, each followed by "\n"
RECURSIVE SaveText(_, _)
SaveText(chunks, vectors) ==
    IF chunks = <<>> \/ vectors = <<>> THEN <<>>
    ELSE DumpsRow(Head(chunks), Head(vectors)) \o <<ChLF>>
         \o SaveText(Tail(chunks), Tail(vectors))

IsLineEnd(c) == c.t = "chr" /\ c.v \in {"LF", "LS"}

\* str.splitlines(): the lines of the text, without their line ends; no
\* empty last line after a final line end
RECURSIVE SplitLines(_, _)
SplitLines(text, cur) ==
    IF text = <<>> THEN (IF cur = <<>> THEN <<>> ELSE <<cur>>)
    ELSE IF IsLineEnd(Head(text))
         THEN <<cur>> \o SplitLines(Tail(text), <<>>)
         ELSE SplitLines(Tail(text), Append(cur, Head(text)))

\* json.loads(line) succeeds: the line is one whole row
IsJsonRow(line) ==
    /\ Len(line) >= 2
    /\ line[1].t = "pre"
    /\ line[Len(line)].t = "post"
    /\ \A i \in 2..(Len(line) - 1) : line[i].t \in {"chr", "esc"}

\* the text of a parsed row: escapes decoded
RECURSIVE LoadsText(_)
LoadsText(toks) ==
    IF toks = <<>> THEN <<>>
    ELSE (IF Head(toks) = EscN THEN <<ChNL>> ELSE <<Head(toks)>>)
         \o LoadsText(Tail(toks))

\* _chunk_from_dict(row["chunk"])
_chunk_from_dict(line) ==
    [chunk_id |-> line[1].v,
     text |-> LoadsText(SubSeq(line, 2, Len(line) - 1)),
     metadata |-> line[Len(line)].v[1]]

\* the loop of load() over the lines from line i on: the chunks and vectors
\* appended so far, and the index (0-based, as enumerate gives it) of the
\* line json.loads rejected, if any
RECURSIVE LoadLines(_, _, _, _)
LoadLines(lines, i, chunks, vectors) ==
    IF i > Len(lines)
    THEN [chunks |-> chunks, vectors |-> vectors, err |-> None]
    ELSE IF lines[i] = <<>>
         THEN LoadLines(lines, i + 1, chunks, vectors)
    ELSE IF ~IsJsonRow(lines[i])
         THEN [chunks |-> chunks, vectors |-> vectors, err |-> Some(i - 1)]
    ELSE LoadLines(lines, i + 1,
                   Append(chunks, _chunk_from_dict(lines[i])),
                   Append(vectors, lines[i][Len(lines[i])].v[2]))

StoreIdle ==
    /\ st_pc = "idle" /\ st_chunks = <<>> /\ st_vectors = <<>>
    /\ st_file = None /\ st_orig = <<>> /\ st_err = None

\* a store filled by upsert, nothing on disk yet
StoreInit ==
    /\ st_pc = "filled"
    /\ \E rows \in StoreContents :
         /\ st_chunks = [i \in 1..Len(rows) |-> rows[i].chunk]
         /\ st_vectors = [i \in 1..Len(rows) |-> rows[i].vector]
    /\ st_file = None
    /\ st_orig = <<>>
    /\ st_err = None

\* save(): the rows are written to the temporary file, which then replaces
\* the data file.  st_orig remembers what was saved.
Save ==
    /\ UNCHANGED notSt
    /\ st_pc = "filled"
    /\ st_file' = Some(SaveText(st_chunks, st_vectors))
    /\ st_orig' = [i \in 1..Min(Len(st_chunks), Len(st_vectors)) |->
                      [chunk |-> st_chunks[i], vector |-> st_vectors[i]]]
    /\ st_pc' = "saved"
    /\ UNCHANGED <<st_chunks, st_vectors, st_err>>

\* load(): clear, then read the data file line by line; a line json.loads
\* rejects raises RuntimeError and leaves what was read before it
Load ==
    /\ UNCHANGED notSt
    /\ st_pc = "saved"
    /\ LET r == IF IsNone(st_file)
                THEN [chunks |-> <<>>, vectors |-> <<>>, err |-> None]
                ELSE LoadLines(SplitLines(st_file[1], <<>>), 1, <<>>, <<>>)
       IN  /\ st_chunks' = r.chunks
           /\ st_vectors' = r.vectors
           /\ st_err' = r.err
           /\ st_pc' = IF IsNone(r.err) THEN "loaded" ELSE "load_failed"
    /\ UNCHANGED <<st_file, st_orig>>

StoreNext == Save \/ Load

----------------------------------------------------------------------------
(* retrieve_nodes (src/rag/pipeline.py) and main (ask.py) *)

\* mmr_select as a function: the greedy loop run to its end
RECURSIVE MmrLoop(_, _, _, _, _, _, _)
MmrLoop(qv, embs, lam, sel, rem, k, n) ==
    IF ~MmrLoopCond(sel, rem, k, n) THEN sel
    ELSE LET best == MmrBest(qv, embs, lam, sel, rem)
         IN  IF IsNone(best) THEN sel
             ELSE MmrLoop(qv, embs, lam, Append(sel, best[1]),
                          rem \ {best[1]}, k, n)

mmr_select(qv, cands, k, lam, embed) ==
    IF cands = <<>> \/ k <= 0 THEN <<>>
    ELSE IF ~embed THEN Take(SortByScore(cands), k)
    ELSE LET sel == MmrLoop(qv, MmrEmbs(cands), lam, <<>>, DOMAIN cands,
                            k, Len(cands))
         IN  [j \in 1..Len(sel) |-> cands[sel[j]]]

\* the embedding of the text of the node with node_id i, and of the query
PlVec(i) ==
    CASE i % 4 = 1 -> <<1, 0>>
      [] i % 4 = 2 -> <<3, 4>>
      [] i % 4 = 3 -> <<0 - 1, 0>>
      [] OTHER -> <<4, 3>>
PlQueryVec == <<3, 4>>

\* what retriever.retrieve returns: at most similarity_top_k nodes
PlNodeListsOfLen(m) ==
    {[i \in 1..m |-> [id |-> i, score |-> f[i][1], src |-> f[i][2],
                      vec |-> PlVec(i)]] :
        f \in [1..m -> {None, Some(0), Some(1)} \X {Some("a.md"), None}]}
PlNodeLists == UNION {PlNodeListsOfLen(m) : m \in 0..MaxPlNodes}

\* RetrievalConfig: the defaults are retrieve_k 30, mmr_lambda 0.7,
\* rerank_candidates 20
DefaultRetrieveK == 30
DefaultMmrLambda == 7
DefaultRerankCandidates == 20
ContextKs == {0, 1, 2}

\* the replies of the language model the pipeline is run with
PlReplies == {Reply("text", <<>>),
              Reply("list", <<Item("int", 1), Item("int", 0), Item("int", 0)>>)}

PipelineIdle ==
    /\ pl_pc = "idle"
    /\ pl_cfg = [retrieve_k |-> DefaultRetrieveK, context_k |-> 5,
                 dedupe |-> TRUE, mmr |-> FALSE,
                 mmr_lambda |-> DefaultMmrLambda, rerank |-> FALSE,
                 rerank_candidates |-> DefaultRerankCandidates]
    /\ pl_env = [embed |-> FALSE, llm |-> FALSE, reply |-> Reply("text", <<>>)]
    /\ pl_raw = <<>> /\ pl_nodes = <<>> /\ pl_hist = <<>> /\ pl_final = <<>>

\* Every configuration of the stages; what a disabled stage would read
\* (the embedder, the language model, rerank_candidates) is left at one value.
PipelineInit ==
    /\ pl_pc = "start"
    /\ pl_raw \in PlNodeLists
    /\ \E ck \in ContextKs, dd \in BOOLEAN, mm \in BOOLEAN, rr \in BOOLEAN,
          rc \in {1, DefaultRerankCandidates} :
         /\ ~rr => rc = DefaultRerankCandidates
         /\ pl_cfg = [retrieve_k |-> DefaultRetrieveK, context_k |-> ck,
                      dedupe |-> dd, mmr |-> mm,
                      mmr_lambda |-> DefaultMmrLambda, rerank |-> rr,
                      rerank_candidates |-> rc]
    /\ \E em \in BOOLEAN, lm \in BOOLEAN, rp \in PlReplies :
         /\ ~pl_cfg.mmr => ~em
         /\ ~pl_cfg.rerank => ~lm
         /\ ~lm => rp = Reply("text", <<>>)
         /\ pl_env = [embed |-> em, llm |-> lm, reply |-> rp]
    /\ pl_nodes = <<>> /\ pl_hist = <<>> /\ pl_final = <<>>

\* a stage that ran: its name, the list it was given, the list it produced
Ran(stage, in, out) == [stage |-> stage, in |-> in, out |-> out]

\* lines 26-28: raw_nodes = retriever.retrieve(query); nodes = raw_nodes
PlRetrieve ==
    /\ UNCHANGED notPl
    /\ pl_pc = "start"
    /\ pl_nodes' = pl_raw
    /\ pl_hist' = <<Ran("Retrieved", <<>>, pl_raw)>>
    /\ pl_pc' = "retrieved"
    /\ UNCHANGED <<pl_cfg, pl_env, pl_raw, pl_final>>

\* line 31: nodes = sorted(nodes, key=...)
PlSort ==
    /\ UNCHANGED notPl
    /\ pl_pc = "retrieved"
    /\ pl_nodes' = SortByScore(pl_nodes)
    /\ pl_hist' = Append(pl_hist, Ran("Sorted", pl_nodes, pl_nodes'))
    /\ pl_pc' = "sorted"
    /\ UNCHANGED <<pl_cfg, pl_env, pl_raw, pl_final>>

\* a pipeline that dedupes whatever cfg.dedupe says
PlDedupeStage_Always(cfg, nodes) == dedupe_by_source(nodes)

\* a pipeline that never dedupes
PlDedupeStage_Never(cfg, nodes) == nodes

\* lines 34-35: if cfg.dedupe: nodes = dedupe_by_source(nodes, ...)
PlDedupeStage(cfg, nodes) ==
    IF cfg.dedupe THEN dedupe_by_source(nodes) ELSE nodes

PlDedupe ==
    /\ UNCHANGED notPl
    /\ pl_pc = "sorted"
    /\ pl_nodes' = PlDedupeStage(pl_cfg, pl_nodes)
    /\ pl_hist' = IF pl_cfg.dedupe
                  THEN Append(pl_hist, Ran("Deduped", pl_nodes, pl_nodes'))
                  ELSE pl_hist
    /\ pl_pc' = "deduped"
    /\ UNCHANGED <<pl_cfg, pl_env, pl_raw, pl_final>>

\* lines 38-43: if cfg.mmr: nodes = mmr_select(query, nodes,
\* k=min(len(nodes), cfg.retrieve_k), lambda_mult=cfg.mmr_lambda)
PlMmr ==
    /\ UNCHANGED notPl
    /\ pl_pc = "deduped"
    /\ IF pl_cfg.mmr
       THEN /\ pl_nodes' = mmr_select(PlQueryVec, pl_nodes,
                                      Min(Len(pl_nodes), pl_cfg.retrieve_k),
                                      pl_cfg.mmr_lambda, pl_env.embed)
            /\ pl_hist' = Append(pl_hist,
                                 Ran("Diversified", pl_nodes, pl_nodes'))
       ELSE UNCHANGED <<pl_nodes, pl_hist>>
    /\ pl_pc' = "diversified"
    /\ UNCHANGED <<pl_cfg, pl_env, pl_raw, pl_final>>

\* lines 46-48: if cfg.rerank: candidates = nodes[:cfg.rerank_candidates];
\* nodes = llm_rerank(query, candidates, keep_k=cfg.context_k).  An
\* exception of llm_rerank leaves retrieve_nodes.
PlRerank ==
    /\ UNCHANGED notPl
    /\ pl_pc = "diversified"
    /\ IF pl_cfg.rerank
       THEN \E fails \in BOOLEAN :
              LET r == llm_rerank(Take(pl_nodes, pl_cfg.rerank_candidates),
                                  pl_cfg.context_k, pl_env.llm, fails,
                                  pl_env.reply)
              IN  IF r.status = "raised"
                  THEN /\ pl_pc' = "raised"
                       /\ UNCHANGED <<pl_nodes, pl_hist>>
                  ELSE /\ pl_nodes' = r.nodes
                       /\ pl_hist' = Append(pl_hist,
                                            Ran("Reranked", pl_nodes, r.nodes))
                       /\ pl_pc' = "reranked"
       ELSE /\ pl_pc' = "reranked"
            /\ UNCHANGED <<pl_nodes, pl_hist>>
    /\ UNCHANGED <<pl_cfg, pl_env, pl_raw, pl_final>>

\* a pipeline that forgets the final cut
PlCut_None(nodes, context_k) == nodes

\* nodes[: cfg.context_k]
PlCut(nodes, context_k) == Take(nodes, context_k)

\* lines 50-51: final_nodes = nodes[: cfg.context_k]; return raw_nodes, final_nodes
PlTruncate ==
    /\ UNCHANGED notPl
    /\ pl_pc = "reranked"
    /\ pl_final' = PlCut(pl_nodes, pl_cfg.context_k)
    /\ pl_hist' = Append(pl_hist, Ran("Truncated", pl_nodes, pl_final'))
    /\ pl_pc' = "done"
    /\ UNCHANGED <<pl_cfg, pl_env, pl_raw, pl_nodes>>

\* main of ask.py (lines 138-150) on the same retriever output: raise if it
\* is empty, else sort, dedupe unless --no-dedupe, cut to --context-k
AskMain ==
    /\ UNCHANGED notPl
    /\ pl_pc = "start"
    /\ IF pl_raw = <<>>
       THEN /\ pl_pc' = "ask_raised"
            /\ UNCHANGED <<pl_nodes, pl_final>>
       ELSE /\ pl_nodes' = IF pl_cfg.dedupe
                           THEN dedupe_by_source_ask(SortByScore(pl_raw))
                           ELSE SortByScore(pl_raw)
            /\ pl_final' = Take(pl_nodes', pl_cfg.context_k)
            /\ pl_pc' = "ask_done"
    /\ UNCHANGED <<pl_cfg, pl_env, pl_raw, pl_hist>>

PipelineNext ==
    PlRetrieve \/ PlSort \/ PlDedupe \/ PlMmr \/ PlRerank \/ PlTruncate
    \/ AskMain

----------------------------------------------------------------------------
(* JsonlVectorStore and InMemoryVectorStore: upsert, count, search.  The two
   classes have the same code for these three methods. *)

\* Python's None as a metadata or filter value
PyNone == "None"

\* chunk.metadata: a mapping from some keys to values
VsMetas ==
    {<<>>, [k \in {"tag"} |-> "x"], [k \in {"tag"} |-> "y"],
     [k \in {"tag", "kind"} |-> "x"]}
VsVectors == {<<1, 0>>, <<3, 4>>, <<0, 0>>}
\* filters: None or {} (both the empty mapping here), or a mapping
VsFilters ==
    {<<>>, [k \in {"tag"} |-> "x"], [k \in {"tag"} |-> PyNone],
     [k \in {"kind"} |-> "x"], [k \in {"tag", "kind"} |-> "x"]}
TopKs == 0..3
BatchLens == 0..2

\* _dot, _norm (sqrt(...) or 1.0) and _cosine of the store modules; the
\* cosine is held in 25ths
_dot(a, b) == a[1] * b[1] + a[2] * b[2]
_norm(a) == IF ISqrt(_dot(a, a)) = 0 THEN 1 ELSE ISqrt(_dot(a, a))
_cosine_store(a, b) == (_dot(a, b) * CosOne) \div (_norm(a) * _norm(b))

\* c.metadata.get(k)
MetaGet(meta, k) == IF k \in DOMAIN meta THEN meta[k] ELSE PyNone

\* allowed(c): no filters, or c.metadata.get(k) == v for every item of filters
allowed(c, filters) ==
    \A k \in DOMAIN filters : MetaGet(c.metadata, k) = filters[k]

\* the loop over zip(self._chunks, self._vectors): the allowed chunks, each
\* with its score, in insertion order
RECURSIVE Scored(_, _, _, _)
Scored(chunks, vectors, query_vector, filters) ==
    IF chunks = <<>> \/ vectors = <<>> THEN <<>>
    ELSE LET rest == Scored(Tail(chunks), Tail(vectors), query_vector, filters)
         IN  IF allowed(Head(chunks), filters)
             THEN <<[chunk |-> Head(chunks),
                     score |-> _cosine_store(query_vector, Head(vectors))]>>
                  \o rest
             ELSE rest

Reverse(s) == [i \in 1..Len(s) |-> s[Len(s) + 1 - i]]

\* an ascending sort turned round: equal scores come out latest first
SearchSort_AscendingReversed(scored) ==
    Reverse(SortedByKeys(scored,
                [i \in 1..Len(scored) |-> <<0, scored[i].score>>]))

\* scored.sort(key=lambda c: c.score, reverse=True): stable, descending
SearchSort(scored) ==
    SortedByKeys(scored, [i \in 1..Len(scored) |-> <<0, 0 - scored[i].score>>])

\* search (lines 134-158): score the allowed chunks, sort, cut at top_k
search(chunks, vectors, query_vector, top_k, filters) ==
    Take(SearchSort(Scored(chunks, vectors, query_vector, filters)), top_k)

\* an upsert that never rejects its arguments
UpsertRaises_Never(chunks, vectors) == FALSE

\* if len(chunks) != len(vectors): raise ValueError(...)
UpsertRaises(chunks, vectors) == Len(chunks) # Len(vectors)

\* count()
count == Len(vs_chunks)

VecStoreIdle ==
    /\ vs_pc = "idle" /\ vs_chunks = <<>> /\ vs_vectors = <<>>
    /\ vs_pairs = <<>> /\ vs_err = FALSE
    /\ vs_query = <<0, 0>> /\ vs_topk = 0 /\ vs_filters = <<>> /\ vs_out = <<>>

\* a new, empty store
VecStoreInit ==
    /\ vs_pc = "ready" /\ vs_chunks = <<>> /\ vs_vectors = <<>>
    /\ vs_pairs = <<>> /\ vs_err = FALSE
    /\ vs_query = <<0, 0>> /\ vs_topk = 0 /\ vs_filters = <<>> /\ vs_out = <<>>

\* the chunks of a batch: the j-th has the next free chunk_id
BatchChunks(metas) ==
    [j \in 1..Len(metas) |->
        [chunk_id |-> Len(vs_pairs) + j, metadata |-> metas[j]]]

\* upsert(chunks=..., vectors=...) (lines 122-132).  vs_pairs keeps the
\* (chunk, vector) pairs of the calls whose two lengths were equal.
Upsert ==
    /\ UNCHANGED notVs
    /\ vs_pc = "ready"
    /\ \E nc \in BatchLens, nv \in BatchLens :
       \E metas \in [1..nc -> VsMetas], vectors \in [1..nv -> VsVectors] :
         /\ nc = nv => Len(vs_pairs) + nc <= MaxVsStored
         /\ nc # nv => /\ \A j \in 1..nc : metas[j] = <<>>
                       /\ \A j \in 1..nv : vectors[j] = <<1, 0>>
         /\ LET chunks == BatchChunks(metas)
            IN  /\ IF UpsertRaises(chunks, vectors)
                   THEN /\ vs_err' = TRUE
                        /\ UNCHANGED <<vs_chunks, vs_vectors>>
                   ELSE /\ vs_err' = FALSE
                        /\ vs_chunks' = vs_chunks \o chunks
                        /\ vs_vectors' = vs_vectors \o vectors
                /\ vs_pairs' =
                     IF nc = nv
                     THEN vs_pairs \o [j \in 1..nc |-> <<chunks[j], vectors[j]>>]
                     ELSE vs_pairs
    /\ UNCHANGED <<vs_pc, vs_query, vs_topk, vs_filters, vs_out>>

\* search(query_vector=..., top_k=..., filters=...) on the store as it is
Search ==
    /\ UNCHANGED notVs
    /\ vs_pc = "ready"
    /\ \E top_k \in TopKs, filters \in VsFilters :
         /\ vs_query' = <<1, 0>>
         /\ vs_topk' = top_k
         /\ vs_filters' = filters
         /\ vs_out' = search(vs_chunks, vs_vectors, <<1, 0>>, top_k, filters)
    /\ vs_pc' = "searched"
    /\ UNCHANGED <<vs_chunks, vs_vectors, vs_pairs, vs_err>>

VecStoreNext == Upsert \/ Search

----------------------------------------------------------------------------
(* JsonlVectorStore.save step by step, with a crash of the process at any
   point, and load() of whatever data file there is *)

\* the contents of a store that is saved
SvRows ==
    [chunk : [chunk_id : {"c"}, text : {<<ChA>>, <<ChA, ChNL>>},
              metadata : {<<>>}],
     vector : {<<1, 0>>}]
SvContents == SeqsUpTo(SvRows, MaxStore)
SvChunks(rows) == [i \in 1..Len(rows) |-> rows[i].chunk]
SvVecs(rows) == [i \in 1..Len(rows) |-> rows[i].vector]

\* the data file save() writes for the rows
GoodFile(rows) == SaveText(SvChunks(rows), SvVecs(rows))
\* a row cut off inside its text: json.loads rejects it
\* the line {} : a JSON object without the keys of a row
JsonEmptyObject == Tok("obj", "{}")
\* malformed records: a row cut off after its opening or inside its text, and
\* an object that is not a row
TornRows == {<<Tok("pre", "c")>>, <<Tok("pre", "c"), ChA>>, <<JsonEmptyObject>>}
\* The data file before save(): absent, written by an earlier save() of
\* `rows`, or holding a malformed record: cut off inside a last row, or a
\* cut-off row followed by whole rows.
DataFile(kind, rows, torn) ==
    CASE kind = "absent" -> None
      [] kind = "good" -> Some(GoodFile(rows))
      [] kind = "torn_last" -> Some(GoodFile(rows) \o torn)
      [] OTHER -> Some(torn \o <<ChLF>> \o GoodFile(rows))
FileKinds == {"absent", "good", "torn_last", "torn_first"}

\* snippet = line[:200]
SnippetLen == 200

\* json.loads accepts the line: a whole row, or a JSON object that is not one
IsJsonValue(line) == IsJsonRow(line) \/ line = <<JsonEmptyObject>>

\* load() of the data file `file` (None: it does not exist): the chunks and
\* vectors read and the exception raised: for a line json.loads rejected,
\* RuntimeError with the line's index and snippet; for a line json.loads
\* accepted that has no "chunk" key, the KeyError of row["chunk"], which
\* carries neither
LoadFile(file) ==
    IF IsNone(file)
    THEN [chunks |-> <<>>, vectors |-> <<>>, raised |-> "none",
          err |-> None, snippet |-> <<>>]
    ELSE LET lines == SplitLines(file[1], <<>>)
             r == LoadLines(lines, 1, <<>>, <<>>)
         IN  IF IsNone(r.err)
             THEN [chunks |-> r.chunks, vectors |-> r.vectors,
                   raised |-> "none", err |-> None, snippet |-> <<>>]
             ELSE IF IsJsonValue(lines[r.err[1] + 1])
             THEN [chunks |-> r.chunks, vectors |-> r.vectors,
                   raised |-> "KeyError", err |-> None, snippet |-> <<>>]
             ELSE [chunks |-> r.chunks, vectors |-> r.vectors,
                   raised |-> "RuntimeError", err |-> r.err,
                   snippet |-> Take(lines[r.err[1] + 1], SnippetLen)]
NotLoaded == [chunks |-> <<>>, vectors |-> <<>>, raised |-> "not loaded",
              err |-> None, snippet |-> <<>>]

SaveIdle ==
    /\ sv_pc = "idle" /\ sv_chunks = <<>> /\ sv_vectors = <<>>
    /\ sv_live = None /\ sv_tmp = None /\ sv_i = 0 /\ sv_prev = None
    /\ sv_loaded = NotLoaded

\* a store in memory and a data directory: no data file, one written by an
\* earlier save(), or a damaged one
SaveInit ==
    /\ sv_pc = "start"
    /\ \E rows \in SvContents :
         sv_chunks = SvChunks(rows) /\ sv_vectors = SvVecs(rows)
    /\ \E kind \in FileKinds, rows \in SvContents, torn \in TornRows :
         /\ kind = "absent" => rows = <<>>
         /\ kind \in {"absent", "good"} => torn = <<Tok("pre", "c")>>
         /\ sv_live = DataFile(kind, rows, torn)
    /\ sv_prev = sv_live
    /\ sv_tmp = None /\ sv_i = 0
    /\ sv_loaded = NotLoaded

\* lines 104-108: mkdir, open the temporary file for writing
SaveOpenTmp ==
    /\ UNCHANGED notSv
    /\ sv_pc = "start"
    /\ sv_tmp' = Some(<<>>)
    /\ sv_i' = 1
    /\ sv_pc' = "writing"
    /\ UNCHANGED <<sv_chunks, sv_vectors, sv_live, sv_prev, sv_loaded>>

\* lines 109-113: one row and its "\n" written to the temporary file
SaveWriteRow ==
    /\ UNCHANGED notSv
    /\ sv_pc = "writing"
    /\ sv_i <= Min(Len(sv_chunks), Len(sv_vectors))
    /\ sv_tmp' = Some(sv_tmp[1] \o DumpsRow(sv_chunks[sv_i], sv_vectors[sv_i])
                      \o <<ChLF>>)
    /\ sv_i' = sv_i + 1
    /\ UNCHANGED <<sv_pc, sv_chunks, sv_vectors, sv_live, sv_prev, sv_loaded>>

\* a save that writes the rows straight into the data file
ReplaceTarget_InPlace(live, tmp, done) == tmp

\* what the data file holds while the temporary file is written and once
\* tmp_file.replace(self.data_file) has run (line 119)
ReplaceTarget(live, tmp, done) == IF done THEN tmp ELSE live

\* lines 116-119: flush, close, tmp_file.replace(self.data_file)
SaveReplace ==
    /\ UNCHANGED notSv
    /\ sv_pc = "writing"
    /\ sv_i > Min(Len(sv_chunks), Len(sv_vectors))
    /\ sv_live' = ReplaceTarget(sv_live, sv_tmp, TRUE)
    /\ sv_tmp' = None
    /\ sv_pc' = "saved"
    /\ UNCHANGED <<sv_chunks, sv_vectors, sv_i, sv_prev, sv_loaded>>

\* the process dies during save(): the files stay as they are
SaveCrash ==
    /\ UNCHANGED notSv
    /\ sv_pc = "writing"
    /\ sv_live' = ReplaceTarget(sv_live, sv_tmp, FALSE)
    /\ sv_pc' = "crashed"
    /\ UNCHANGED <<sv_chunks, sv_vectors, sv_tmp, sv_i, sv_prev, sv_loaded>>

\* load() (lines 73-92) by a new process, of the data file as it is
SaveLoad ==
    /\ UNCHANGED notSv
    /\ sv_pc \in {"start", "crashed", "saved"}
    /\ sv_loaded' = LoadFile(sv_live)
    /\ sv_pc' = IF sv_loaded'.raised = "none" THEN "loaded" ELSE "load_failed"
    /\ UNCHANGED <<sv_chunks, sv_vectors, sv_live, sv_tmp, sv_i, sv_prev>>

SaveNext ==
    SaveOpenTmp \/ SaveWriteRow \/ SaveReplace \/ SaveCrash \/ SaveLoad

----------------------------------------------------------------------------
(* load_profile and override_cfg (src/rag/profiles.py) *)

\* most keys of a profile file or of an overrides dict
MaxProfileKeys == 2

\* JSON / Python values: None, an int, a bool, and the object {"context_k": n}
JNull == [t |-> "null", v |-> 0]
JInt(n) == [t |-> "int", v |-> n]
JBool(b) == [t |-> "bool", v |-> IF b THEN 1 ELSE 0]
JObj(n) == [t |-> "obj", v |-> n]

\* two of the fields of RetrievalConfig, an int and a bool, with their defaults
Fields == {"context_k", "dedupe"}
Defaults == [context_k |-> JInt(5), dedupe |-> JBool(TRUE)]

\* the key/value pairs met in profiles and overrides: fields, a key that is
\* no attribute of the config, and two keys that are attributes of every
\* object but no fields
ProfileEntries ==
    {<<"context_k", JNull>>, <<"context_k", JInt(0)>>, <<"context_k", JInt(7)>>,
     <<"dedupe", JBool(FALSE)>>, <<"extra", JInt(1)>>,
     <<"__dict__", JObj(9)>>, <<"__class__", JInt(1)>>}

\* dicts in insertion order, each key once
ProfileDicts ==
    {d \in SeqsUpTo(ProfileEntries, MaxProfileKeys) :
        \A i, j \in 1..Len(d) : i # j => d[i][1] # d[j][1]}

\* hasattr(config, k): true for the fields and for every other attribute of
\* the instance, __dict__ and __class__ among them
HasAttr(k) == k \in Fields \cup {"__dict__", "__class__"}

\* setattr(config, k, v) for a k with hasattr: a field is set; __dict__
\* replaces the instance's attributes, the fields it lacks then read the
\* class defaults; __class__ with a value that is no class raises TypeError
SetAttr(st, k, v) ==
    IF k \in Fields THEN [st EXCEPT !.cfg[k] = v]
    ELSE IF k = "__dict__"
         THEN [st EXCEPT !.cfg = [Defaults EXCEPT !.context_k = JInt(v.v)]]
         ELSE [st EXCEPT !.raised = TRUE]

\* for k, v in d.items(): [if v is None: continue]
\*                        if hasattr(config, k): setattr(config, k, v)
RECURSIVE ApplyKeys(_, _, _)
ApplyKeys(st, d, skipNone) ==
    IF d = <<>> \/ st.raised THEN st
    ELSE LET k == Head(d)[1]
             v == Head(d)[2]
         IN  IF skipNone /\ v = JNull THEN ApplyKeys(st, Tail(d), skipNone)
             ELSE IF HasAttr(k)
                  THEN ApplyKeys(SetAttr(st, k, v), Tail(d), skipNone)
                  ELSE ApplyKeys(st, Tail(d), skipNone)

\* load_profile: config = RetrievalConfig(), then every key of the file
load_profile(profile) ==
    ApplyKeys([cfg |-> Defaults, raised |-> FALSE], profile, FALSE)

\* override_cfg: a copy of config, then every key whose value is not None
override_cfg(config, overrides) ==
    ApplyKeys([cfg |-> config, raised |-> FALSE], overrides, TRUE)

ProfileIdle ==
    /\ pf_pc = "idle" /\ pf_profile = None /\ pf_overrides = <<>>
    /\ pf_cfg = Defaults /\ pf_out = Defaults

\* a query: no profile named or the contents of the named profile file, and
\* the caller's overrides
ProfileInit ==
    /\ pf_pc = "start"
    /\ pf_profile \in {None} \cup {Some(d) : d \in ProfileDicts}
    /\ pf_overrides \in ProfileDicts
    /\ pf_cfg = Defaults /\ pf_out = Defaults

\* RetrievalConfig() when no profile is named, load_profile(name) otherwise
ProfLoad ==
    /\ UNCHANGED notPf
    /\ pf_pc = "start"
    /\ IF IsNone(pf_profile)
       THEN pf_cfg' = Defaults /\ pf_pc' = "loaded"
       ELSE LET r == load_profile(pf_profile[1])
            IN  /\ pf_cfg' = r.cfg
                /\ pf_pc' = IF r.raised THEN "load_raised" ELSE "loaded"
    /\ UNCHANGED <<pf_profile, pf_overrides, pf_out>>

\* override_cfg(config, overrides)
ProfOverride ==
    /\ UNCHANGED notPf
    /\ pf_pc = "loaded"
    /\ LET r == override_cfg(pf_cfg, pf_overrides)
       IN  /\ pf_out' = r.cfg
           /\ pf_pc' = IF r.raised THEN "override_raised" ELSE "done"
    /\ UNCHANGED <<pf_profile, pf_overrides, pf_cfg>>

ProfileNext == ProfLoad \/ ProfOverride

----------------------------------------------------------------------------
(* CachedEmbedder.embed_texts (src/rag/adapters/embedding/sqlite_cache.py),
   called by two processes that share one cache database *)

\* calls of embed_texts the two processes make between them
MaxCalls == 2

Procs == {1, 2}
CeTexts == {"a", "b"}
ModelName == "m"

\* the text lists embed_texts is called with: empty, one text, two texts,
\* one text twice
TextLists == {<<>>, <<"a">>, <<"b", "a">>, <<"a", "a">>}

\* what the upstream embedder may return for a text; it need not return the
\* same vector for the same text twice
UpstreamVecs == {<<1, 0>>, <<0, 1>>}

\* sha256(model_name | sha256(text)), taken as free of collisions
_key_for_text(model_name, text) == <<model_name, text>>

\* json.dumps(vec) and list(json.loads(vjson)) of a list of floats
JsonDumpsVec(vec) == [array |-> vec]
JsonLoadsVec(vjson) == vjson.array

\* keys = [_key_for_text(self.model_name, t) for t in texts]
KeysOf(texts) == [i \in 1..Len(texts) |-> _key_for_text(ModelName, texts[i])]

\* lines 63-65: the rows of the table whose key is among keys, decoded
SelectFound(cache, keys) ==
    [k \in Range(keys) \cap DOMAIN cache |-> JsonLoadsVec(cache[k])]

\* a lookup that takes every index for missing
MissingIdx_All(keys, found) == [i \in 1..Len(keys) |-> i]

\* missing_idx = [i for i, k in enumerate(keys) if k not in found]
MissingIdx(keys, found) ==
    LET S == {i \in 1..Len(keys) : keys[i] \notin DOMAIN found}
    IN  AscList(S)

\* lines 73-76: found[k] = vec for each missing index, in order
RECURSIVE MergeNew(_, _, _, _)
MergeNew(found, keys, missing, vecs) ==
    IF missing = <<>> \/ vecs = <<>> THEN found
    ELSE LET k == keys[Head(missing)]
         IN  MergeNew([x \in DOMAIN found \cup {k} |->
                          IF x = k THEN Head(vecs) ELSE found[x]],
                      keys, Tail(missing), Tail(vecs))

\* line 78: INSERT OR REPLACE of the rows (k, model, json.dumps(vec)), in order
RECURSIVE InsertOrReplace(_, _, _, _)
InsertOrReplace(cache, keys, missing, vecs) ==
    IF missing = <<>> \/ vecs = <<>> THEN cache
    ELSE LET k == keys[Head(missing)]
         IN  InsertOrReplace([x \in DOMAIN cache \cup {k} |->
                                 IF x = k THEN JsonDumpsVec(Head(vecs))
                                 ELSE cache[x]],
                             keys, Tail(missing), Tail(vecs))

EmptyMap == [x \in {} |-> <<>>]
ProcIdle == [pc |-> "idle", texts |-> <<>>, found |-> EmptyMap,
             known |-> {}, new |-> <<>>, began |-> 0]

CacheIdle ==
    /\ ce_proc = [p \in Procs |-> ProcIdle]
    /\ ce_cache = EmptyMap
    /\ ce_up = [t \in CeTexts |-> 0]
    /\ ce_hist = <<>>
    /\ ce_overlap = FALSE

\* an empty cache, or one that holds text "a" from an earlier run.  pc
\* "ready" tells a process of a running program from an idle component.
CacheInit ==
    /\ ce_proc = [p \in Procs |-> [ProcIdle EXCEPT !.pc = "ready"]]
    /\ ce_cache \in {EmptyMap,
                     [k \in {_key_for_text(ModelName, "a")} |->
                         JsonDumpsVec(<<1, 0>>)]}
    /\ ce_up = [t \in CeTexts |-> 0]
    /\ ce_hist = <<>>
    /\ ce_overlap = FALSE

\* line 57: process p calls embed_texts(texts).  began: how many calls had
\* returned by then; ce_overlap: some call began while another was running.
CeBegin(p) ==
    /\ UNCHANGED notCe
    /\ ce_proc[p].pc = "ready"
    /\ Len(ce_hist) + Cardinality({q \in Procs : ce_proc[q].pc # "ready"})
         < MaxCalls
    /\ \E texts \in TextLists :
         ce_proc' = [ce_proc EXCEPT ![p] =
                        [@ EXCEPT !.pc = "called", !.texts = texts,
                                  !.found = EmptyMap, !.known = {},
                                  !.new = <<>>, !.began = Len(ce_hist)]]
    /\ ce_overlap' = (ce_overlap \/ \E q \in Procs \ {p} :
                                       ce_proc[q].pc # "ready")
    /\ UNCHANGED <<ce_cache, ce_up, ce_hist>>

\* lines 59-65: the SELECT
CeSelect(p) ==
    /\ UNCHANGED notCe
    /\ ce_proc[p].pc = "called"
    /\ LET found == SelectFound(ce_cache, KeysOf(ce_proc[p].texts))
       IN  ce_proc' = [ce_proc EXCEPT ![p] =
                          [@ EXCEPT !.pc = "selected", !.found = found,
                                    !.known = DOMAIN found]]
    /\ UNCHANGED <<ce_cache, ce_up, ce_hist, ce_overlap>>

\* lines 67-76: the texts of the missing indices go to the upstream
\* embedder in one call; found takes its vectors
CeEmbed(p) ==
    /\ UNCHANGED notCe
    /\ ce_proc[p].pc = "selected"
    /\ LET keys == KeysOf(ce_proc[p].texts)
           missing == MissingIdx(keys, ce_proc[p].found)
           sent == {ce_proc[p].texts[missing[i]] : i \in 1..Len(missing)}
       IN  /\ missing # <<>>
           /\ \E vecs \in [1..Len(missing) -> UpstreamVecs] :
                ce_proc' = [ce_proc EXCEPT ![p] =
                               [@ EXCEPT !.pc = "embedded", !.new = vecs,
                                         !.found = MergeNew(@, keys, missing,
                                                            vecs)]]
           /\ ce_up' = [t \in CeTexts |->
                           IF t \in sent THEN ce_up[t] + 1 ELSE ce_up[t]]
    /\ UNCHANGED <<ce_cache, ce_hist, ce_overlap>>

\* line 78 and the commit at the end of the with block
CeInsert(p) ==
    /\ UNCHANGED notCe
    /\ ce_proc[p].pc = "embedded"
    /\ LET keys == KeysOf(ce_proc[p].texts)
           missing == MissingIdx(keys, [k \in ce_proc[p].known |-> <<>>])
       IN  ce_cache' = InsertOrReplace(ce_cache, keys, missing, ce_proc[p].new)
    /\ ce_proc' = [ce_proc EXCEPT ![p].pc = "inserted"]
    /\ UNCHANGED <<ce_up, ce_hist, ce_overlap>>

\* line 80: return [found[k] for k in keys].  ce_hist keeps the call: its
\* texts, the vectors returned, the texts it sent upstream, the keys its
\* SELECT found, and how many calls had returned when it began.
CeReturn(p) ==
    /\ UNCHANGED notCe
    /\ LET keys == KeysOf(ce_proc[p].texts)
           missing == MissingIdx(keys, [k \in ce_proc[p].known |-> <<>>])
       IN  /\ \/ ce_proc[p].pc = "inserted"
              \/ ce_proc[p].pc = "selected" /\ missing = <<>>
           /\ ce_hist' = Append(ce_hist,
                [texts |-> ce_proc[p].texts,
                 vecs |-> [i \in 1..Len(keys) |-> ce_proc[p].found[keys[i]]],
                 sent |-> IF ce_proc[p].pc = "inserted"
                          THEN {ce_proc[p].texts[missing[i]] :
                                  i \in 1..Len(missing)}
                          ELSE {},
                 known |-> ce_proc[p].known,
                 began |-> ce_proc[p].began])
    /\ ce_proc' = [ce_proc EXCEPT ![p] = [ProcIdle EXCEPT !.pc = "ready"]]
    /\ UNCHANGED <<ce_cache, ce_up, ce_overlap>>

CacheNext ==
    \/ \E p \in Procs : CeBegin(p)
    \/ \E p \in Procs : CeSelect(p)
    \/ \E p \in Procs : CeEmbed(p)
    \/ \E p \in Procs : CeInsert(p)
    \/ \E p \in Procs : CeReturn(p)

----------------------------------------------------------------------------
(* The specifications: one component runs, the others stay idle *)

InitDedupe == DedupeInit /\ MmrIdle /\ RerankIdle /\ BuildIdle /\ StoreIdle /\ PipelineIdle /\ VecStoreIdle
    /\ SaveIdle
    /\ ProfileIdle /\ CacheIdle
SpecDedupe == InitDedupe /\ [][DedupeNext]_vars

InitMmr == MmrInit /\ DedupeIdle /\ RerankIdle /\ BuildIdle /\ StoreIdle /\ PipelineIdle /\ VecStoreIdle
    /\ SaveIdle
    /\ ProfileIdle /\ CacheIdle
SpecMmr == InitMmr /\ [][MmrNext]_vars

InitRerank == RerankInit /\ DedupeIdle /\ MmrIdle /\ BuildIdle /\ StoreIdle /\ PipelineIdle /\ VecStoreIdle
    /\ SaveIdle
    /\ ProfileIdle /\ CacheIdle
SpecRerank == InitRerank /\ [][RerankNext]_vars

\* llm_rerank_lcel runs in one thread that takes its next step whenever it
\* has one: chain.invoke returns or raises
InitLcel == LcelInit /\ DedupeIdle /\ MmrIdle /\ BuildIdle /\ StoreIdle /\ PipelineIdle /\ VecStoreIdle /\ SaveIdle
    /\ ProfileIdle /\ CacheIdle
SpecLcelLive == InitLcel /\ [][LcelNext]_vars /\ WF_vars(LcelNext)

InitBuild == BuildInit /\ DedupeIdle /\ MmrIdle /\ RerankIdle /\ StoreIdle /\ PipelineIdle /\ VecStoreIdle
    /\ SaveIdle
    /\ ProfileIdle /\ CacheIdle
SpecBuild == InitBuild /\ [][BuildNext]_vars

InitStore ==
    StoreInit /\ DedupeIdle /\ MmrIdle /\ RerankIdle /\ BuildIdle
    /\ PipelineIdle /\ VecStoreIdle
    /\ SaveIdle
    /\ ProfileIdle /\ CacheIdle
SpecStore == InitStore /\ [][StoreNext]_vars

InitPipeline ==
    PipelineInit /\ DedupeIdle /\ MmrIdle /\ RerankIdle /\ BuildIdle
    /\ StoreIdle /\ VecStoreIdle
    /\ SaveIdle
    /\ ProfileIdle /\ CacheIdle
SpecPipeline == InitPipeline /\ [][PipelineNext]_vars

InitVecStore ==
    VecStoreInit /\ DedupeIdle /\ MmrIdle /\ RerankIdle /\ BuildIdle
    /\ StoreIdle /\ PipelineIdle
    /\ SaveIdle
    /\ ProfileIdle /\ CacheIdle
SpecVecStore == InitVecStore /\ [][VecStoreNext]_vars

InitSave ==
    SaveInit /\ DedupeIdle /\ MmrIdle /\ RerankIdle /\ BuildIdle
    /\ StoreIdle /\ PipelineIdle /\ VecStoreIdle
    /\ ProfileIdle /\ CacheIdle
SpecSave == InitSave /\ [][SaveNext]_vars

InitProfile ==
    ProfileInit /\ DedupeIdle /\ MmrIdle /\ RerankIdle /\ BuildIdle
    /\ StoreIdle /\ PipelineIdle /\ VecStoreIdle /\ SaveIdle /\ CacheIdle
SpecProfile == InitProfile /\ [][ProfileNext]_vars

InitCache ==
    CacheInit /\ DedupeIdle /\ MmrIdle /\ RerankIdle /\ BuildIdle
    /\ StoreIdle /\ PipelineIdle /\ VecStoreIdle /\ SaveIdle /\ ProfileIdle
SpecCache == InitCache /\ [][CacheNext]_vars

----------------------------------------------------------------------------
(* Properties *)

\* a <= b on optional scores, a missing score being the lowest
ScoreLE(a, b) == IsNone(a) \/ (~IsNone(b) /\ a[1] <= b[1])

\* `out` is no longer than `inp`, holds every provenance key at most once,
\* and holds for each key a node of `inp` whose score no node of `inp` with
\* that key exceeds
DedupeSafe(inp, out) ==
    /\ Len(out) <= Len(inp)
    /\ \A i, j \in 1..Len(out) :
         i # j => ProvenanceKey(out[i]) # ProvenanceKey(out[j])
    /\ \A i \in 1..Len(out) :
         /\ out[i] \in Range(inp)
         /\ \A j \in 1..Len(inp) :
              ProvenanceKey(inp[j]) = ProvenanceKey(out[i])
              => ScoreLE(inp[j].score, out[i].score)

\* C1: for every candidate list, in any order and with scores that may be
\* null, dedupe_by_source (both the one of src/rag/retrieval.py and the one
\* of ask.py) returns a list no longer than the input, without two
\* candidates of the same provenance key, keeping for each key a candidate
\* of maximum score.
C1_DedupeKeepsBest ==
    /\ dd_pc \in {"retrieval_done", "done"} => DedupeSafe(dd_nodes, dd_out)
    /\ dd_pc = "done" => DedupeSafe(dd_nodes, dd_out_ask)

\* The part of C1 that holds: the function of src/rag/retrieval.py, which
\* sorts before it keeps the first node of each key.
C1_RetrievalVariantKeepsBest ==
    dd_pc \in {"retrieval_done", "done"} => DedupeSafe(dd_nodes, dd_out)

\* ask.py's function was given a later, better-scoring node of a key it
\* had already kept
C1_AskKeptWorse ==
    /\ dd_pc = "done"
    /\ \E i \in 1..Len(dd_out_ask) : \E j \in 1..Len(dd_nodes) :
         /\ ProvenanceKey(dd_nodes[j]) = ProvenanceKey(dd_out_ask[i])
         /\ ~ScoreLE(dd_nodes[j].score, dd_out_ask[i].score)

\* C2: with an embedder configured, mmr_select returns exactly min(k, n)
\* candidates for every k >= 0, and at no point of the selection is a
\* candidate index selected twice.
C2_MmrSizeAndDistinct ==
    mm_embed =>
      /\ \A i, j \in 1..Len(mm_sel) : i # j => mm_sel[i] # mm_sel[j]
      /\ mm_pc = "done" =>
           /\ Len(mm_out) = Min(mm_k, Len(mm_cands))
           /\ Len(mm_out) = Len(mm_sel)
           /\ \A j \in 1..Len(mm_out) : mm_out[j] = mm_cands[mm_sel[j]]

\* mmr_select returned fewer candidates than it was given, and more than one
C2_MmrSelectedSome ==
    /\ mm_pc = "done" /\ mm_embed
    /\ mm_k = 2 /\ Len(mm_cands) = 3 /\ Len(mm_out) = 2

\* the estimated cost of the j-th accepted passage: its label, its text and
\* the separator
AcceptedCost(j) ==
    _estimate_tokens(LabelLen(j, cb_cites[j].score, cb_cfg.include_scores))
    + _estimate_tokens(cb_chosen[j].text.len)
    + _estimate_tokens(SeparatorLen)

RECURSIVE SumAcceptedCosts(_)
SumAcceptedCosts(j) == IF j = 0 THEN 0 ELSE AcceptedCost(j) + SumAcceptedCosts(j - 1)

\* C3: at every point of every packing run, the estimated token costs of
\* the accepted passages sum to at most token_budget.
C3_AcceptedCostsWithinBudget ==
    /\ Len(cb_cites) = Len(cb_chosen)
    /\ SumAcceptedCosts(Len(cb_chosen)) <= cb_budget

\* two candidates of 30 tokens each and a budget of 50: the first was
\* packed, the second was not
C3_SecondDidNotFit ==
    /\ cb_pc = "done"
    /\ cb_budget = 50
    /\ Len(cb_ordered) = 2
    /\ \A i \in 1..2 : cb_ordered[i].chunk.text.len = 112
                       /\ candidate_key(cb_ordered[i]) = 2
    /\ ~cb_cfg.dedupe /\ ~cb_cfg.include_scores /\ cb_cfg.max_chunks = 12
    /\ Len(cb_chosen) = 1
    /\ SumAcceptedCosts(1) = 30

\* a comes before b in the order "score descending, nulls last, ties in
\* the order of the pool" (a node's id is its position in the pool)
BeforeByScore(a, b) ==
    \/ ~IsNone(a.score) /\ IsNone(b.score)
    \/ ~IsNone(a.score) /\ ~IsNone(b.score) /\ a.score[1] > b.score[1]
    \/ a.score = b.score /\ a.id < b.id

\* `nodes` is the first min(keep, n) candidates of the pool in that order
IsScoreSortedPrefix(nodes, cands, keep) ==
    /\ Len(nodes) = Min(keep, Len(cands))
    /\ \A j \in 1..Len(nodes) : nodes[j] \in Range(cands)
    /\ \A i, j \in 1..Len(nodes) : i < j => BeforeByScore(nodes[i], nodes[j])
    /\ \A c \in Range(cands) \ Range(nodes) :
         \A j \in 1..Len(nodes) : BeforeByScore(nodes[j], c)

\* the reply is not {"ranked": [indices]}: no JSON object, unparseable
\* JSON, `ranked` missing or not a list, or a list with an element that is
\* not an index (an int, or a bool or digit string the code reads as one)
ReplyMalformed(reply) ==
    \/ reply.kind # "list"
    \/ \E i \in 1..Len(reply.items) :
         reply.items[i].t \notin {"int", "bool", "str"}
ReplyEmpty(reply) == reply.kind = "list" /\ reply.items = <<>>
ReplyHasOutOfRange(reply, n) ==
    /\ reply.kind = "list"
    /\ \E i \in 1..Len(reply.items) :
         reply.items[i].t = "int" /\ ~(0 <= reply.items[i].v /\ reply.items[i].v < n)

\* no element of the reply's `ranked` is an index of the pool, read as the
\* code reads it (an int, a bool or a string of decimal digits)
NoUsableIndex(reply, n) ==
    \A i \in 1..Len(reply.items) :
        ~(/\ reply.items[i].t \in {"int", "bool", "str"}
          /\ 0 <= reply.items[i].v /\ reply.items[i].v < n)

RerankReturned == rr_pc \in {"llm_done", "lcel_done"} /\ rr_out.status = "ok"

ReplyIsIntList(reply) ==
    reply.kind = "list" /\ \A i \in 1..Len(reply.items) : reply.items[i].t = "int"
ReplyIdx(reply) == [i \in 1..Len(reply.items) |-> reply.items[i].v]
ValidIdx(idx, n) == {v \in Range(idx) : 0 <= v /\ v < n}
FirstPos(idx, v) ==
    CHOOSE p \in 1..Len(idx) : idx[p] = v /\ \A q \in 1..(p - 1) : idx[q] # v

\* `nodes` is the candidates at the in-range indices of idx, each once, in
\* the order of their first occurrence in idx, cut to keep
IsRankingOf(nodes, idx, cands, keep) ==
    LET valid == ValidIdx(idx, Len(cands))
    IN  /\ Len(nodes) = Min(keep, Cardinality(valid))
        /\ \A j \in 1..Len(nodes) : \E v \in valid : nodes[j] = cands[v + 1]
        /\ \A i, j \in 1..Len(nodes) :
             i < j => FirstPos(idx, nodes[i].id - 1) < FirstPos(idx, nodes[j].id - 1)
        /\ \A v \in valid :
             cands[v + 1] \notin Range(nodes)
             => \A j \in 1..Len(nodes) :
                    FirstPos(idx, nodes[j].id - 1) < FirstPos(idx, v)

\* C6: when the reply yields a ranking, the reranker returns the candidates
\* at the returned indices in the model's order, out-of-range indices
\* discarded, each index kept at its first occurrence only, cut to keep_k.
C6_RankingValidated ==
    (/\ ReplyIsIntList(rr_reply)
     /\ ValidIdx(ReplyIdx(rr_reply), Len(rr_cands)) # {}
     /\ rr_keep > 0
     /\ \/ rr_pc = "llm_done" /\ rr_llm /\ rr_out.status = "ok"
        \/ rr_pc = "lcel_done" /\ rr_out.path = "ranked")
    => IsRankingOf(rr_out.nodes, ReplyIdx(rr_reply), rr_cands, rr_keep)

\* ranked [2, 0, 0, 5] over 3 candidates gave [candidate 2, candidate 0]
C6_ScenarioC ==
    /\ rr_pc = "llm_done" /\ rr_llm /\ rr_out.status = "ok"
    /\ ReplyIdx(rr_reply) = <<2, 0, 0, 5>>
    /\ Len(rr_cands) = 3 /\ rr_keep = 2
    /\ rr_out.nodes = <<rr_cands[3], rr_cands[1]>>

\* C7: an error raised by the language-model call is never fatal: both
\* rerankers return (the score-sorted fallback) instead of raising.
C7_ModelErrorAbsorbed ==
    rr_pc \in {"llm_done", "lcel_done"} => rr_out.status = "ok"

\* C5: save() followed by load() on the same path yields the identical
\* sequence of (passage, vector) pairs: load succeeds, with as many records,
\* equal passages and equal vectors, in the same order.
C5_SaveLoadRoundTrip ==
    st_pc \in {"loaded", "load_failed"} =>
      /\ IsNone(st_err)
      /\ Len(st_chunks) = Len(st_orig)
      /\ Len(st_vectors) = Len(st_orig)
      /\ \A i \in 1..Len(st_orig) :
           st_chunks[i] = st_orig[i].chunk /\ st_vectors[i] = st_orig[i].vector

\* similarity of candidate i to the query
SimQ(i) == _cosine(mm_qv, mm_cands[i].vec)
\* i comes before j in "query similarity descending, earliest index first"
BeforeBySim(i, j) == SimQ(i) > SimQ(j) \/ (SimQ(i) = SimQ(j) /\ i < j)

C9_LambdaZeroFirstPick ==
    (mm_embed /\ mm_lambda = 0 /\ mm_sel # <<>>) =>
      \A i \in DOMAIN mm_cands : SimQ(mm_sel[1]) >= SimQ(i)

\* C10: the number of accepted passages never exceeds max_chunks, for
\* every max_chunks including 0.
C10_AcceptedWithinMaxChunks == Len(cb_chosen) <= cb_cfg.max_chunks

----------------------------------------------------------------------------
(* SimpleContextBuilder.build: the returned ContextPack *)

\* build has returned (and rag_answer may have passed the pack on)
BuildReturned == cb_pc \in {"done", "generated"}

\* C11: in every ContextPack that build returns, tokens_used_est is at most
\* token_budget, for every token_budget >= 0 and every candidate list, the
\* runs that pack nothing included.
C11_TokensUsedWithinBudget == BuildReturned => cb_tokens <= cb_budget

\* the candidate of the input that carries chunk_id id
CandOfChunk(id) == CHOOSE c \in Range(cb_cands) : c.chunk.chunk_id = id

\* C12: the citations are parallel to the accepted passages: same length,
\* citations[i] carries the chunk_id and doc_id of chunks[i], rank i (from 1)
\* and the score its candidate was ordered by; in the returned pack the
\* i-th rendered passage is chunks[i] under the label citations[i].rank.
C12_CitationsParallel ==
    /\ Len(cb_cites) = Len(cb_chosen)
    /\ \A i \in 1..Len(cb_chosen) :
         /\ cb_cites[i].chunk_id = cb_chosen[i].chunk_id
         /\ cb_cites[i].doc_id = cb_chosen[i].doc_id
         /\ cb_cites[i].rank = i
         /\ cb_cites[i].score = candidate_key(CandOfChunk(cb_chosen[i].chunk_id))
    /\ BuildReturned =>
         /\ Len(cb_rendered) = Len(cb_chosen)
         /\ \A i \in 1..Len(cb_chosen) :
              /\ cb_rendered[i].label = cb_cites[i].rank
              /\ cb_rendered[i].text = Strip(cb_chosen[i].text)

\* a pack of two passages was returned, the lower-scored input first
C12_TwoCitationsReturned ==
    /\ BuildReturned
    /\ Len(cb_chosen) = 2
    /\ cb_cites[1].chunk_id = 2 /\ cb_cites[2].chunk_id = 1
    /\ cb_cites[1].score > cb_cites[2].score

\* the candidate at position j of the ordering reaches the budget test if the
\* loop gets to it: it passes min_score and, with dedupe, no earlier
\* candidate that passes min_score has its signature
CostTested(j) ==
    LET passes(i) == IsNone(cb_cfg.min_score)
                     \/ candidate_key(cb_ordered[i]) >= cb_cfg.min_score[1]
    IN  /\ passes(j)
        /\ cb_cfg.dedupe =>
             \A i \in 1..(j - 1) :
                passes(i) =>
                  cb_ordered[i].chunk.text.sig # cb_ordered[j].chunk.text.sig

\* the positions of the ordering whose passage was packed
PackedPos ==
    {j \in 1..Len(cb_ordered) :
        \E r \in 1..Len(cb_chosen) : cb_chosen[r] = cb_ordered[j].chunk}

\* C13: packing goes through the candidates in descending effective score
\* (rerank_score if present, else score) and stops at the first candidate
\* whose cost exceeds what is left of the budget: every packed passage is a
\* whole passage of the input, nothing ordered after the first candidate
\* that was tested and left out is packed, and that candidate either did not
\* fit or came after max_chunks was reached.
C13_PackingStopsAtFirstOverflow ==
    cb_pc \in {"render", "done", "generated"} =>
      /\ Len(cb_ordered) = Len(cb_cands)
      /\ Range(cb_ordered) = Range(cb_cands)
      /\ \A i, j \in 1..Len(cb_ordered) :
           i < j => candidate_key(cb_ordered[i]) >= candidate_key(cb_ordered[j])
      /\ Cardinality(PackedPos) = Len(cb_chosen)
      /\ \A r \in 1..Len(cb_chosen) :
           \E j \in PackedPos :
              /\ cb_chosen[r] = cb_ordered[j].chunk
              /\ Cardinality({i \in PackedPos : i < j}) = r - 1
      /\ \A j \in PackedPos : CostTested(j)
      /\ \A j \in 1..Len(cb_ordered) :
           (CostTested(j) /\ j \notin PackedPos) =>
             /\ \A j2 \in PackedPos : j2 < j
             /\ LET r == Len(cb_chosen)
                    cost == ChunkTokens(r + 1, candidate_key(cb_ordered[j]),
                                        cb_cfg.include_scores,
                                        cb_ordered[j].chunk.text)
                IN  \/ _estimate_tokens(HeaderLen) + SumAcceptedCosts(r) + cost
                         > cb_budget
                    \/ (r >= 1 /\ r >= cb_cfg.max_chunks)
                    \/ \E i \in 1..(j - 1) : CostTested(i) /\ i \notin PackedPos

\* a budget of 50 and two candidates of 30 tokens each, given in ascending
\* score: the higher-scored one was packed and the run returned with 32
\* tokens used
C13_ScenarioB ==
    /\ BuildReturned
    /\ cb_budget = 50
    /\ Len(cb_cands) = 2
    /\ \A i \in 1..2 : cb_cands[i].chunk.text.len = 112
    /\ candidate_key(cb_cands[1]) < candidate_key(cb_cands[2])
    /\ ~cb_cfg.dedupe /\ ~cb_cfg.include_scores /\ cb_cfg.max_chunks = 12
    /\ IsNone(cb_cfg.min_score)
    /\ cb_chosen = <<cb_cands[2].chunk>>
    /\ cb_tokens = 32

\* C14: when packing yields no passage, the query ends in an error: build
\* never returns, and rag_answer never hands to the generator, a ContextPack
\* with zero passages.
C14_NoEmptyPackReturned == BuildReturned => Len(cb_chosen) > 0

----------------------------------------------------------------------------
(* retrieve_nodes: the stages *)

\* C15: when retrieval yields no candidate, retrieve_nodes and the ask entry
\* point raise: neither returns after an empty retriever output.
C15_EmptyRetrievalRaises == pl_pc \in {"done", "ask_done"} => pl_raw # <<>>

\* the names of the stages that ran, in the order they ran
StagesRun == [i \in 1..Len(pl_hist) |-> pl_hist[i].stage]

\* the stages retrieve_nodes runs under cfg
ExpectedStages(cfg) ==
    <<"Retrieved", "Sorted">>
    \o (IF cfg.dedupe THEN <<"Deduped">> ELSE <<>>)
    \o (IF cfg.mmr THEN <<"Diversified">> ELSE <<>>)
    \o (IF cfg.rerank THEN <<"Reranked">> ELSE <<>>)
    \o <<"Truncated">>

IsPrefix(a, b) == Len(a) <= Len(b) /\ a = SubSeq(b, 1, Len(a))

C17_FinalWithinContextK ==
    pl_pc = "done" => Len(pl_final) <= pl_cfg.context_k

\* without rerank, two nodes reached the final cut and one was returned
C17_CutToContextK ==
    /\ pl_pc = "done"
    /\ ~pl_cfg.rerank
    /\ pl_cfg.context_k = 1
    /\ Len(pl_nodes) = 2
    /\ Len(pl_final) = 1

----------------------------------------------------------------------------
(* The vector stores: upsert, count, search *)

\* C18: an upsert whose two lengths differ fails and leaves the store as it
\* was; one whose lengths are equal appends its pairs in order.  So the store
\* always holds exactly the pairs of the successful upserts, the i-th
\* passage with the i-th vector, and count() is their number.
C18_StoreHoldsSuccessfulUpserts ==
    /\ Len(vs_chunks) = Len(vs_pairs)
    /\ Len(vs_vectors) = Len(vs_pairs)
    /\ count = Len(vs_pairs)
    /\ \A i \in 1..Len(vs_pairs) :
         vs_pairs[i] = <<vs_chunks[i], vs_vectors[i]>>

\* an upsert of mismatched lengths has just failed on a store of two passages
C18_MismatchRejected ==
    /\ vs_pc = "ready" /\ vs_err
    /\ count = 2
    /\ vs_vectors[1] # vs_vectors[2]

\* the positions of the stored passages that satisfy the filters of the search
AllowedPos ==
    {i \in 1..Len(vs_chunks) : allowed(vs_chunks[i], vs_filters)}
\* the position in the store of the j-th candidate returned
OutPos(j) ==
    CHOOSE i \in 1..Len(vs_chunks) : vs_chunks[i] = vs_out[j].chunk
StoredScore(i) == _cosine_store(vs_query, vs_vectors[i])
\* position i is ranked before position j: higher score, or equal score and
\* inserted earlier
RankedBefore(i, j) ==
    StoredScore(i) > StoredScore(j)
    \/ (StoredScore(i) = StoredScore(j) /\ i < j)

\* C19: search returns min(top_k, m) candidates, m the number of stored
\* passages that satisfy the filters; they are the highest-scoring ones, in
\* non-increasing score, and among equal scores the earlier-inserted comes
\* first and is the one kept at the cut.
C19_SearchTopKStable ==
    vs_pc = "searched" =>
      /\ Len(vs_out) = Min(vs_topk, Cardinality(AllowedPos))
      /\ \A j \in 1..Len(vs_out) :
           /\ \E i \in AllowedPos : vs_chunks[i] = vs_out[j].chunk
           /\ vs_out[j].score = StoredScore(OutPos(j))
      /\ \A j, l \in 1..Len(vs_out) :
           j < l => RankedBefore(OutPos(j), OutPos(l))
      /\ \A i \in AllowedPos :
           (\A j \in 1..Len(vs_out) : OutPos(j) # i) =>
              \A j \in 1..Len(vs_out) : RankedBefore(OutPos(j), i)

\* two passages of equal score were stored and top_k = 1 kept the earlier
C19_TieCutKeptEarlier ==
    /\ vs_pc = "searched"
    /\ Len(vs_chunks) = 2
    /\ AllowedPos = {1, 2}
    /\ StoredScore(1) = StoredScore(2)
    /\ vs_topk = 1
    /\ Len(vs_out) = 1 /\ OutPos(1) = 1

\* C20: a passage is returned by search only if, for every filter key, its
\* metadata has that key with a value equal to the filter value; a passage
\* without a filter key is excluded whatever the filter value.
C20_ReturnedHaveEveryFilterKey ==
    vs_pc = "searched" =>
      \A j \in 1..Len(vs_out) : \A k \in DOMAIN vs_filters :
         /\ k \in DOMAIN vs_out[j].chunk.metadata
         /\ vs_out[j].chunk.metadata[k] = vs_filters[k]

----------------------------------------------------------------------------
(* JsonlVectorStore: a crash during save(), and load() of a damaged file *)

\* two data files hold the same characters (or are both absent)
SameFile(a, b) ==
    /\ IsNone(a) <=> IsNone(b)
    /\ ~IsNone(a) =>
         /\ Len(a[1]) = Len(b[1])
         /\ \A i \in 1..Len(a[1]) :
              IF a[1][i].t = b[1][i].t THEN a[1][i].v = b[1][i].v ELSE FALSE

\* the data file a completed save() of the store in memory leaves
NewFile == Some(SaveText(sv_chunks, sv_vectors))

\* C21: whenever save() is cut short by a crash, and at every other point,
\* the data file holds the whole previous contents or the whole new
\* contents; a load() afterwards yields what load() yields for one of the two.
C21_LiveFileOldOrNew ==
    /\ SameFile(sv_live, sv_prev) \/ SameFile(sv_live, NewFile)
    /\ sv_pc \in {"loaded", "load_failed"} =>
         sv_loaded = LoadFile(sv_prev) \/ sv_loaded = LoadFile(NewFile)

\* save() crashed after the first of two rows went to the temporary file,
\* and load() then read the one row of the earlier save
C21_CrashedMidWriteThenLoaded ==
    /\ sv_pc = "loaded"
    /\ Len(sv_chunks) = 2 /\ sv_i = 2
    /\ ~IsNone(sv_tmp) /\ Len(sv_tmp[1]) > 0
    /\ Len(sv_loaded.chunks) = 1
    /\ sv_loaded.chunks[1].text # sv_chunks[1].text

\* the lines of the data file, and those json.loads rejects
LiveLines == IF IsNone(sv_live) THEN <<>> ELSE SplitLines(sv_live[1], <<>>)
BadLines ==
    {i \in 1..Len(LiveLines) : LiveLines[i] # <<>> /\ ~IsJsonRow(LiveLines[i])}
FirstBadLine == CHOOSE i \in BadLines : \A j \in BadLines : i <= j

\* C22: load() of a data file with a malformed record (a line that is not
\* parseable JSON) fails with an error that names the line (by its index from
\* 0, as enumerate counts it) and carries the start of its content; load()
\* succeeds only if no line is malformed, with one chunk per non-blank line.
C22_MalformedLineIsFatal ==
    sv_pc \in {"loaded", "load_failed"} =>
      /\ BadLines # {} =>
           /\ sv_pc = "load_failed"
           /\ sv_loaded.err = Some(FirstBadLine - 1)
           /\ sv_loaded.snippet = Take(LiveLines[FirstBadLine], SnippetLen)
           /\ sv_loaded.snippet # <<>>
      /\ sv_pc = "loaded" =>
           /\ BadLines = {}
           /\ Len(sv_loaded.chunks)
                = Cardinality({i \in 1..Len(LiveLines) : LiveLines[i] # <<>>})

----------------------------------------------------------------------------
(* dedupe_by_source: candidates without provenance *)

\* the node has no source_path, or an empty one
LacksProvenance(n) == IsNone(n.src) \/ n.src = Some("")

\* the number of positions of `nodes` that hold n
Occurrences(nodes, n) == Cardinality({i \in 1..Len(nodes) : nodes[i] = n})

\* C25: every input candidate that lacks the provenance field appears in the
\* output of dedupe_by_source, exactly once, in the variant of
\* src/rag/retrieval.py and in the variant of ask.py: it is merged neither
\* with another candidate lacking the field nor with one that has it.
C25_MissingProvenanceNeverConflated ==
    \A i \in 1..Len(dd_nodes) :
        LacksProvenance(dd_nodes[i]) =>
          /\ dd_pc \in {"retrieval_done", "done"} =>
               Occurrences(dd_out, dd_nodes[i]) = 1
          /\ dd_pc = "done" => Occurrences(dd_out_ask, dd_nodes[i]) = 1

\* a list of three candidates, two without the provenance field and one with
\* it, went through both variants: both candidates without the field kept
C25_TwoMissingBothKept ==
    /\ dd_pc = "done"
    /\ Len(dd_nodes) = 3
    /\ \E i, j \in 1..Len(dd_nodes) :
         /\ i # j
         /\ IsNone(dd_nodes[i].src) /\ IsNone(dd_nodes[j].src)
         /\ Occurrences(dd_out, dd_nodes[i]) = 1
         /\ Occurrences(dd_out, dd_nodes[j]) = 1
         /\ Occurrences(dd_out_ask, dd_nodes[i]) = 1
         /\ Occurrences(dd_out_ask, dd_nodes[j]) = 1
    /\ \E i \in 1..Len(dd_nodes) : ~LacksProvenance(dd_nodes[i])

----------------------------------------------------------------------------
(* mmr_select: the assertion inside the greedy loop *)

\* C28: for every lambda_mult in [0, 1] and every non-empty candidate list,
\* every iteration of the greedy loop finds a best index, so the assertion
\* `best_i is not None` never fails; the loop never selects more than
\* min(k, n) indices and ends when it has selected exactly min(k, n).
C28_MmrAssertNeverFails ==
    /\ ~mm_failed
    /\ mm_pc # "assert_failed"
    /\ mm_pc = "loop" =>
         /\ Len(mm_sel) <= Min(mm_k, Len(mm_cands))
         /\ Cardinality(mm_rem) = Len(mm_cands) - Len(mm_sel)
    /\ (mm_pc = "done" /\ mm_embed /\ mm_cands # <<>> /\ mm_k > 0) =>
         Len(mm_sel) = Min(mm_k, Len(mm_cands))

\* the loop ran three times with lambda_mult = 0 over three candidates of the
\* same embedding: from the second iteration on every value is negative
C28_ThreeIterationsNegativeValues ==
    /\ mm_pc = "done" /\ mm_embed
    /\ mm_lambda = 0 /\ mm_k >= 3
    /\ Len(mm_cands) = 3 /\ Len(mm_sel) = 3
    /\ \A i \in 1..3 : mm_cands[i].vec = <<1, 0>>
    /\ MmrVal(mm_qv, MmrEmbs(mm_cands), mm_lambda, mm_sel[3], SubSeq(mm_sel, 1, 2)) < 0

----------------------------------------------------------------------------
(* retrieve_nodes: what final_nodes is made of *)

NoRepeats(nodes) ==
    \A i, j \in 1..Len(nodes) : i # j => nodes[i] # nodes[j]

\* C29: for a retriever output without repeated nodes, every element of
\* final_nodes (and of the list every stage hands on) is an element of
\* raw_nodes and appears once; raw_nodes is the retriever's output in its
\* order, whatever the later stages did.
C29_FinalDrawnFromRawOnce ==
    /\ pl_pc \in {"retrieved", "sorted", "deduped", "diversified",
                  "reranked", "done"} =>
         /\ \A j \in 1..Len(pl_nodes) : pl_nodes[j] \in Range(pl_raw)
         /\ NoRepeats(pl_nodes)
         /\ pl_hist[1].stage = "Retrieved" /\ pl_hist[1].out = pl_raw
    /\ pl_pc = "done" =>
         /\ \A j \in 1..Len(pl_final) : pl_final[j] \in Range(pl_raw)
         /\ NoRepeats(pl_final)

\* the model ranked the only candidate handed to it twice, with room for two
\* in final_nodes: it came out once
C29_RepeatedIndexRankedOnce ==
    /\ pl_pc = "done"
    /\ pl_cfg.rerank /\ pl_env.llm /\ pl_env.reply.kind = "list"
    /\ pl_cfg.rerank_candidates = 1 /\ pl_cfg.context_k = 2
    /\ Len(pl_raw) = 2 /\ Len(pl_final) = 1

\* the node has a source_path
HasSource(n) == ~IsNone(n.src) /\ n.src # Some("")

\* what the Deduplicator handed on, if it ran
DedupedOut ==
    {pl_hist[h].out : h \in {g \in 1..Len(pl_hist) : pl_hist[g].stage = "Deduped"}}

\* C30: with cfg.dedupe enabled, no two candidates of final_nodes share a
\* source_path, whether or not MMR and rerank ran, and every candidate of
\* final_nodes is one the Deduplicator kept.
C30_FinalSourcesDistinct ==
    (pl_pc = "done" /\ pl_cfg.dedupe) =>
      /\ \A i, j \in 1..Len(pl_final) :
           (i # j /\ HasSource(pl_final[i]) /\ HasSource(pl_final[j]))
             => pl_final[i].src # pl_final[j].src
      /\ DedupedOut # {}
      /\ \A out \in DedupedOut :
           \A j \in 1..Len(pl_final) : pl_final[j] \in Range(out)

\* two candidates of the same file were retrieved; dedupe, MMR with an
\* embedder and rerank with a ranking reply all ran; one candidate is left
C30_SameFileTwiceOneLeft ==
    /\ pl_pc = "done"
    /\ pl_cfg.dedupe /\ pl_cfg.mmr /\ pl_cfg.rerank
    /\ pl_env.embed /\ pl_env.llm /\ pl_env.reply.kind = "list"
    /\ Len(pl_raw) = 2
    /\ HasSource(pl_raw[1]) /\ pl_raw[1].src = pl_raw[2].src
    /\ pl_cfg.context_k = 2 /\ Len(pl_final) = 1

----------------------------------------------------------------------------
(* llm_rerank_lcel: termination and the number of model calls *)

\* the score-sorted fallback truncated to keep_k
LcelFallback == Returned("fallback", Take(SortByScore(rr_cands), rr_keep))

\* what holds at every point of a call of llm_rerank_lcel
LcelRetryDiscipline ==
    /\ rr_calls <= Max(0, rr_retries + 1)
    /\ rr_pc = "lcel" =>
         /\ rr_calls = rr_attempt
         /\ rr_attempt > 0 => rr_last = "raised"
    /\ rr_last \in {"ranked", "no_index"} => rr_pc = "lcel_done"
    /\ (rr_pc = "lcel_done" /\ rr_last = "ranked") =>
         /\ rr_out.path = "ranked"
         /\ rr_calls = rr_attempt + 1
    /\ (rr_pc = "lcel_done" /\ rr_last = "raised") =>
         /\ rr_calls = rr_retries + 1
         /\ rr_out = LcelFallback
    /\ (rr_pc = "lcel_done" /\ rr_out.path = "ranked") => rr_last = "ranked"

\* C27: llm_rerank_lcel always terminates and invokes the model at most
\* max_retries + 1 times: it returns at the first attempt that yields a
\* ranking, goes on to another attempt only after one that raised, and after
\* the last failed attempt returns the score-sorted fallback cut to keep_k.
C27_LcelTerminatesWithinRetries ==
    /\ [](LcelRetryDiscipline)
    /\ (rr_pc = "lcel") ~> (rr_pc = "lcel_done")

\* the first attempt raised, the second and last one raised too, and the
\* fallback of two candidates came back
C27_FallbackAfterLastRetry ==
    /\ rr_pc = "lcel_done"
    /\ rr_retries = 1 /\ rr_calls = 2 /\ rr_last = "raised"
    /\ Len(rr_cands) >= 2 /\ rr_keep = 2
    /\ rr_out = LcelFallback /\ Len(rr_out.nodes) = 2

----------------------------------------------------------------------------
(* RetrievalConfig: defaults, profile, overrides *)

\* the value of key k in dict d, if d has the key
Lookup(d, k) ==
    IF \E i \in 1..Len(d) : d[i][1] = k
    THEN Some(d[CHOOSE i \in 1..Len(d) : d[i][1] = k][2])
    ELSE None

\* what a field is after the profile: the profile's value, else the default
PriorValue(f) ==
    LET l == IF IsNone(pf_profile) THEN None ELSE Lookup(pf_profile[1], f)
    IN  IF IsNone(l) THEN Defaults[f] ELSE l[1]

\* what a field is after the overrides: the override if it is not None
EffectiveValue(f) ==
    LET o == Lookup(pf_overrides, f)
    IN  IF IsNone(o) \/ o = Some(JNull) THEN PriorValue(f) ELSE o[1]

\* C23: the effective configuration follows defaults < profile < overrides:
\* every field holds the override when it is not null (False and 0
\* included), else the profile's value, else the default; keys that are not
\* fields are ignored by load_profile and override_cfg, which therefore
\* neither raise on them nor let them change a field.
C23_PrecedenceAndExtrasIgnored ==
    /\ pf_pc \notin {"load_raised", "override_raised"}
    /\ pf_pc \in {"loaded", "done"} =>
         \A f \in Fields : pf_cfg[f] = PriorValue(f)
    /\ pf_pc = "done" =>
         \A f \in Fields : pf_out[f] = EffectiveValue(f)

----------------------------------------------------------------------------
(* CachedEmbedder: concurrent calls, and get-or-compute *)

\* C24: when two processes call embed_texts concurrently for the same
\* uncached (model, text), the upstream embedder is called for that text at
\* most once, and the cache holds one value for the key.
C24_UpstreamOncePerKey ==
    /\ \A t \in CeTexts : ce_up[t] <= 1
    /\ \A k \in DOMAIN ce_cache :
         \E v \in UpstreamVecs : ce_cache[k] = JsonDumpsVec(v)

CeKey(t) == _key_for_text(ModelName, t)

\* the vector call h returned for text t
ReturnedFor(h, t) == h.vecs[CHOOSE i \in 1..Len(h.texts) : h.texts[i] = t]

\* C26: embed_texts is get-or-compute.  Every call returns one vector per
\* input text, in input order; a text whose key the call's lookup found in
\* the cache is not sent to the upstream embedder, and nothing else is left
\* out.  When calls do not overlap: after a call has returned, the cache
\* holds the vector it returned for each of its texts, and a later call with
\* any of those texts sends none of them upstream and returns the same
\* vectors.
C26_GetOrCompute ==
    \A j \in 1..Len(ce_hist) :
      LET h == ce_hist[j]
      IN  /\ Len(h.vecs) = Len(h.texts)
          /\ \A t \in h.sent : CeKey(t) \notin h.known
          /\ h.sent = {t \in Range(h.texts) : CeKey(t) \notin h.known}
          /\ \A i \in 1..Len(h.texts) : h.vecs[i] = ReturnedFor(h, h.texts[i])
          /\ ~ce_overlap =>
               /\ \A i \in 1..Len(h.texts) :
                    /\ CeKey(h.texts[i]) \in DOMAIN ce_cache
                    /\ JsonLoadsVec(ce_cache[CeKey(h.texts[i])]) = h.vecs[i]
               /\ \A i \in 1..(j - 1) :
                    \A t \in Range(ce_hist[i].texts) \cap Range(h.texts) :
                      /\ t \notin h.sent
                      /\ ReturnedFor(h, t) = ReturnedFor(ce_hist[i], t)

\* on an empty cache a call for "b", "a" got two different vectors from the
\* upstream embedder; the next call, for "a" twice, sent nothing upstream
\* and returned the vector of "a" twice
C26_SecondCallServedFromCache ==
    /\ ~ce_overlap
    /\ Len(ce_hist) = 2
    /\ ce_hist[1].texts = <<"b", "a">> /\ ce_hist[1].sent = {"a", "b"}
    /\ ce_hist[1].vecs[1] # ce_hist[1].vecs[2]
    /\ ce_hist[2].texts = <<"a", "a">> /\ ce_hist[2].sent = {}
    /\ ce_hist[2].vecs = <<ce_hist[1].vecs[2], ce_hist[1].vecs[2]>>
    /\ ce_up = [t \in CeTexts |-> 1]

====
